---- MODULE Spec2Model ----
(***************************************************************************)
(* A state-machine model of the picobot agent runtime:                     *)
(*   - providers.doWithRetry (HTTP retry with backoff),                    *)
(*   - tools.ExecTool.Execute (the exec sandbox's validator),              *)
(*   - the chat Hub, its producers and consumers, and the AgentLoop.       *)
(* The repository holds two copies of several packages (retry.go and       *)
(* exec.go each come twice, with different behaviour); the model keeps     *)
(* both and a build selects one (rvariant, evariant).                      *)
(* Strings whose characters matter are sequences of one-character strings. *)
(***************************************************************************)
EXTENDS Integers, Sequences, FiniteSets, TLC

VARIABLES
    \* ---- providers.doWithRetry
    rvariant,   \* which copy of retry.go is built: 1 (Retry-After aware) or 2
    rpc,        \* position in doWithRetry
    attempt,    \* the loop variable attempt
    resp,       \* the variable resp: NoResp or a response record
    err,        \* the variable err: NoErr or an error record
    delay,      \* the delay of the wait in progress (a Duration), or NoDelay
    outcomes,   \* history: how each client.Do call ended, in order: the
                \* status, or 0 for a network error
    slept,      \* history: number of waits that were completed
    ctxDone,    \* whether ctx has been cancelled
    rresult,    \* what doWithRetry returned: NoResult or [resp, err]
    \* ---- tools.ExecTool.Execute
    evariant,   \* which copy of exec.go is built: 1 (array form only) or 2
    allowedDir, \* ExecTool.allowedDir, "" (the empty sequence) when not set
    epc,        \* position of the call: received, parsed, validated,
                \* spawned, done
    cmdRaw,     \* args["cmd"] as received
    argv,       \* the variable argv
    eresult,    \* what Execute returned: NoExecResult or [out, err]
    spawned,    \* number of processes the call has started
    \* ---- chat.Hub, its producers and consumers
    hubIn,      \* Hub.In: the queued Inbound envelopes, oldest first
    hubOut,     \* Hub.Out: the queued Outbound envelopes, oldest first
    hubCap,     \* the capacity of each Hub queue: the n of chat.NewHub(n)
    hbFile,     \* HEARTBEAT.md of the workspace: whether it can be read, and its data
    allowFrom,  \* the Telegram adapter's allow_from list, as a set
    tgPending,  \* the Inbound the Telegram poller is sending, or NoInbound
    nextSeq,    \* history: arrival number of the next Inbound entering Hub.In
    \* ---- the AgentLoop and the MessageTool
    provider,   \* the provider in use: "stub" or "llm"
    lpc,        \* position of the loop: idle, provider, tools, publish
    cur,        \* the Inbound of the turn in progress
    iter,       \* iterations of the tool-calling loop used by this turn
    conv,       \* the messages this turn appended after the prompt
    pending,    \* the tool calls of the last assistant message not yet run
    final,      \* the final answer of the turn
    mtCtx,      \* MessageTool.channel and MessageTool.chatID
    provCalls,  \* history: provider calls made by this turn
    toolExecs,  \* history: tool executions made by this turn
    capTripped, \* history: whether this turn ended by the iteration cap
    started,    \* history: number of turns started
    finished,   \* history: number of turns finished
    published,  \* history: the Inbounds whose final answer was put on
                \* Hub.Out, in the order they were put
    \* ---- memory.MemoryStore and the tasks that call it
    limit,      \* MemoryStore.limit
    short,      \* MemoryStore.short, oldest first
    long,       \* MemoryStore.long, oldest first
    mu,         \* MemoryStore.mu: [writer, readers], the tasks that hold it
    mpc,        \* position of each task in its call
    mcall,      \* the call each task is making
    mout,       \* the variable out of each reading task, and what it returned
    mclock,     \* time.Now(): the number of items added so far
    shortLog,   \* history: every item given to AddShort, in the order appended
    \* ---- memory.SimpleRanker and memory.LLMMemoryRanker
    rkpc,       \* position of the call of Rank: called, simple, llm
    rkQuery,    \* the argument query
    rkMems,     \* the argument memories
    rkTop,      \* the argument top
    rkResp,     \* what the provider answers to the ranking request
    rkOut,      \* what Rank returned
    \* ---- providers.NewProviderFromConfig
    fvariant,   \* which copy of factory.go is built: 1 (with Anthropic) or 2
    fpc,        \* position of the call: called, done
    fcfg,       \* the argument cfg: the model and the two provider sections
    fprov,      \* the provider returned: NoProvider until the call returns
    \* ---- agent.ContextBuilder and providers.AnthropicProvider.Chat
    apc,        \* position of the call of Chat: called, built
    amsgs,      \* the argument messages: the unified conversation
    areq,       \* the variable reqBody: NoRequest until it is built
    awire,      \* what doWithRetry gave Chat: NoWire until the call returns
    aout,       \* what Chat returned: NoOutput until it returns
    cbIn,       \* the arguments of BuildMessages and the workspace it reads
    \* ---- tools.WebTool.Execute
    web,        \* the call of Execute: its position, args["url"], what it
                \* returned and the HTTP requests it issued
    \* ---- the Telegram adapter and the tasks beside it on the Hub
    tg          \* the root context, the inbound poller, the outbound
                \* sender, the Heartbeat ticker and another channel's sender

retryVars == <<rvariant, rpc, attempt, resp, err, delay, outcomes, slept, ctxDone, rresult>>

execVars == <<evariant, allowedDir, epc, cmdRaw, argv, eresult, spawned>>

hubVars == <<hubIn, hubOut, hubCap, hbFile, allowFrom, tgPending, nextSeq>>

loopVars == <<provider, lpc, cur, iter, conv, pending, final, mtCtx, provCalls,
              toolExecs, capTripped, started, finished, published>>

memVars == <<limit, short, long, mu, mpc, mcall, mout, mclock, shortLog>>

\* the packages that do not take part in the retry, exec, Hub and loop models
rankVars == <<rkpc, rkQuery, rkMems, rkTop, rkResp, rkOut>>

factoryVars == <<fvariant, fpc, fcfg, fprov>>

wireVars == <<apc, amsgs, areq, awire, aout, cbIn>>

webVars == <<web>>

tgVars == <<tg>>

restVars == <<memVars, rankVars, factoryVars, wireVars, webVars, tgVars>>

nonRetryVars == <<execVars, hubVars, loopVars, restVars>>

nonExecVars == <<retryVars, hubVars, loopVars, restVars>>

nonLoopVars == <<retryVars, execVars, restVars>>

nonMemVars ==
    <<retryVars, execVars, hubVars, loopVars, rankVars, factoryVars, wireVars,
      webVars, tgVars>>

nonRankVars ==
    <<retryVars, execVars, hubVars, loopVars, memVars, factoryVars, wireVars,
      webVars, tgVars>>

nonFactoryVars ==
    <<retryVars, execVars, hubVars, loopVars, memVars, rankVars, wireVars,
      webVars, tgVars>>

nonWireVars ==
    <<retryVars, execVars, hubVars, loopVars, memVars, rankVars, factoryVars,
      webVars, tgVars>>

nonWebVars ==
    <<retryVars, execVars, hubVars, loopVars, memVars, rankVars, factoryVars, wireVars,
      tgVars>>

\* what the Telegram adapter and the tasks beside it leave alone
nonTgVars ==
    <<retryVars, execVars, loopVars, memVars, rankVars, factoryVars, wireVars, webVars>>

vars == <<retryVars, execVars, hubVars, loopVars, restVars>>

(***************************************************************************)
(* Generic helpers on sequences.                                           *)
(***************************************************************************)
Min(a, b) == IF a <= b THEN a ELSE b

Max(a, b) == IF a >= b THEN a ELSE b

RECURSIVE Pow2(_)
Pow2(n) == IF n <= 0 THEN 1 ELSE 2 * Pow2(n - 1)

(***************************************************************************)
(* time.Duration: an int64 count of nanoseconds.  TLC's integers are 32    *)
(* bits wide, so a Duration is kept as three limbs in base 10^9,           *)
(* <<a, b, c>> = a*10^18 + b*10^9 + c ns (b counts seconds below 10^9),    *)
(* and a negative Duration, of which the code only asks the sign, as       *)
(* NegDur.                                                                 *)
(***************************************************************************)
Giga == 1000 * 1000 * 1000

NegDur == <<-1, 0, 0>>

ZeroDur == <<0, 0, 0>>

DurOfMs(ms) == <<0, ms \div 1000, (ms % 1000) * 1000000>>

DurOfSec(s) == <<0, s, 0>>

DurLess(x, y) ==
    \/ x[1] < y[1]
    \/ x[1] = y[1] /\ x[2] < y[2]
    \/ x[1] = y[1] /\ x[2] = y[2] /\ x[3] < y[3]

DurLeq(x, y) == x = y \/ DurLess(x, y)

\* x - y for limb triples with x >= y >= 0
DurSub(x, y) ==
    LET c3 == IF x[3] < y[3] THEN 1 ELSE 0
        l3 == x[3] + c3 * Giga - y[3]
        c2 == IF x[2] - c3 < y[2] THEN 1 ELSE 0
        l2 == x[2] - c3 + c2 * Giga - y[2]
        l1 == x[1] - c2 - y[1]
    IN  <<l1, l2, l3>>

\* 2^64 = 18446744073709551616 and 2^63 = 9223372036854775808
TwoTo64 == <<18, 446744073, 709551616>>

TwoTo63 == <<9, 223372036, 854775808>>

\* a non-negative value reduced modulo 2^64
RECURSIVE Mod2to64(_)
Mod2to64(x) == IF DurLess(x, TwoTo64) THEN x ELSE Mod2to64(DurSub(x, TwoTo64))

\* the int64 a 64-bit multiplication leaves: the product modulo 2^64, read as
\* two's complement
WrapInt64(x) ==
    LET m == Mod2to64(x)
    IN  IF DurLess(m, TwoTo63) THEN m ELSE NegDur

(***************************************************************************)
(* strconv.Atoi on a header value (a sequence of characters).              *)
(***************************************************************************)
Digits == <<"0", "1", "2", "3", "4", "5", "6", "7", "8", "9">>

IsDigit(c) == \E d \in 1..10 : Digits[d] = c

DigitVal(c) == (CHOOSE d \in 1..10 : Digits[d] = c) - 1

\* the value of at most nine decimal digits
RECURSIVE DecVal(_)
DecVal(ds) ==
    IF ds = <<>> THEN 0
    ELSE DecVal(SubSeq(ds, 1, Len(ds) - 1)) * 10 + DigitVal(ds[Len(ds)])

\* the longest digit string the model parses: Atoi has no overflow of its own
\* below 19 digits
AtoiMaxDigits == 18

\* Atoi(val): [ok, neg, hi, lo] with |value| = hi*10^9 + lo
Atoi(val) ==
    LET signed == val # <<>> /\ val[1] \in {"+", "-"}
        body == IF signed THEN Tail(val) ELSE val
        good == /\ body # <<>>
                /\ Len(body) <= AtoiMaxDigits
                /\ \A i \in 1..Len(body) : IsDigit(body[i])
        n == Len(body)
        lo == DecVal(SubSeq(body, Max(1, n - 8), n))
        hi == IF n > 9 THEN DecVal(SubSeq(body, 1, n - 9)) ELSE 0
    IN  IF good
        THEN [ok |-> TRUE, neg |-> signed /\ val[1] = "-", hi |-> hi, lo |-> lo]
        ELSE [ok |-> FALSE, neg |-> FALSE, hi |-> 0, lo |-> 0]

(***************************************************************************)
(* retry.go                                                                *)
(***************************************************************************)
\* a loop that tries once more than maxRetries allows
maxRetriesOffByOne == 3 + 1

maxRetries == 3

NoResp == [status |-> 0, retryAfter |-> [kind |-> "absent"], closed |-> FALSE]

NoErr == [kind |-> "nil", at |-> 0]

NoDelay == <<0, 0, -1>>

NoResult == [returned |-> FALSE, resp |-> NoResp, err |-> NoErr]

\* baseDelay and maxDelay of the two copies, in milliseconds
baseDelayMs(v) == IF v = 1 THEN 1000 ELSE 500

maxDelayMs(v) == IF v = 1 THEN 60000 ELSE 10000

rateLimitBaseMs == 5000

\* retryableStatusCode with 404 Not Found taken for a transient status
retryableStatusCodeWith404(code) == code \in {404, 429, 500, 502, 503, 504}

retryableStatusCode(code) == code \in {429, 500, 502, 503, 504}

\* backoffDelay(attempt): baseDelay * 2^attempt, capped at maxDelay
backoffDelay(v, att) ==
    LET d == DurOfMs(baseDelayMs(v) * Pow2(att))
    IN  IF DurLess(DurOfMs(maxDelayMs(v)), d) THEN DurOfMs(maxDelayMs(v)) ELSE d

\* retryAfterDelay(resp): the Retry-After header as a Duration, 0 when absent
\* or unparseable.  A header is absent, a text (tried as seconds, then as an
\* HTTP date) or an HTTP date, kept as the time from now to it in ms.
retryAfterDelay(r) ==
    LET h == r.retryAfter
    IN  CASE h.kind = "absent" -> ZeroDur
          [] h.kind = "text" ->
                LET a == Atoi(h.val)
                IN  IF h.val = <<>> THEN ZeroDur
                    ELSE IF a.ok /\ ~a.neg /\ (a.hi > 0 \/ a.lo > 0)
                         \* time.Duration(secs) * time.Second, in int64
                         THEN WrapInt64(<<a.hi, a.lo, 0>>)
                         \* no text of the model is an HTTP date
                         ELSE ZeroDur
          [] h.kind = "date" ->
                IF h.untilMs > 0 THEN DurOfMs(h.untilMs) ELSE ZeroDur

\* the delay computed at the head of iteration att > 0 (retry.go 70-80, 161)
retryDelay(v, att, r) ==
    LET d0 == backoffDelay(v, att - 1)
    IN  IF v = 1 /\ r # NoResp /\ r.status = 429
        THEN LET d1 == DurOfMs(rateLimitBaseMs * Pow2(att - 1))
                 ra == retryAfterDelay(r)
                 d2 == IF DurLess(ZeroDur, ra) /\ DurLeq(ra, DurOfSec(60))
                       THEN ra ELSE d1
             IN  IF DurLess(DurOfMs(maxDelayMs(v)), d2)
                 THEN DurOfMs(maxDelayMs(v)) ELSE d2
        ELSE d0

\* ---- the inputs: statuses and Retry-After headers a server may send
Statuses == {200, 404, 429, 500, 502, 503, 504}

RetryAfterTexts ==
    { <<"0">>, <<"1">>, <<"6", "0">>, <<"6", "1">>, <<"-", "5">>, <<"a", "b", "c">>,
      <<"1", "8", "4", "4", "6", "7", "4", "4", "0", "7", "4">> }

RetryAfterHeaders ==
    {[kind |-> "absent"]}
        \cup {[kind |-> "text", val |-> t] : t \in RetryAfterTexts}
        \cup {[kind |-> "date", untilMs |-> u] : u \in {-5000, 30000, 90000}}

Responses ==
    {[status |-> s, retryAfter |-> h, closed |-> FALSE] :
        s \in Statuses, h \in RetryAfterHeaders}

RetryInit ==
    /\ rvariant \in {1, 2}
    /\ rpc = "head"
    /\ attempt = 0
    /\ resp = NoResp
    /\ err = NoErr
    /\ delay = NoDelay
    /\ outcomes = <<>>
    /\ slept = 0
    /\ ctxDone = FALSE
    /\ rresult = NoResult

RetryIdle ==
    /\ rvariant = 1
    /\ rpc = "off"
    /\ attempt = 0
    /\ resp = NoResp
    /\ err = NoErr
    /\ delay = NoDelay
    /\ outcomes = <<>>
    /\ slept = 0
    /\ ctxDone = FALSE
    /\ rresult = NoResult

\* for attempt := 0; attempt <= maxRetries; ... { if attempt > 0 { delay := ... } }
\* and, past the loop, the final return
RetryHead ==
    /\ rpc = "head"
    /\ IF attempt > maxRetries
       THEN /\ rpc' = "done"
            /\ rresult' = IF err # NoErr
                          THEN [returned |-> TRUE, resp |-> NoResp, err |-> err]
                          ELSE [returned |-> TRUE, resp |-> resp, err |-> NoErr]
            /\ UNCHANGED delay
       ELSE IF attempt > 0
            THEN /\ rpc' = "sleep"
                 /\ delay' = retryDelay(rvariant, attempt, resp)
                 /\ UNCHANGED rresult
            ELSE /\ rpc' = "build"
                 /\ UNCHANGED <<delay, rresult>>
    /\ UNCHANGED <<rvariant, attempt, resp, err, outcomes, slept, ctxDone, nonRetryVars>>

\* a wait that runs to its end whether or not ctx is cancelled
RetrySleepTimerIgnoringCtx ==
    /\ rpc = "sleep"
    /\ rpc' = "build"
    /\ slept' = slept + 1
    /\ UNCHANGED <<rvariant, attempt, resp, err, delay, outcomes, ctxDone, rresult, nonRetryVars>>

\* case <-time.After(delay): taken only while ctx.Done() is not ready
RetrySleepTimer ==
    /\ rpc = "sleep"
    /\ ~ctxDone
    /\ rpc' = "build"
    /\ slept' = slept + 1
    /\ UNCHANGED <<rvariant, attempt, resp, err, delay, outcomes, ctxDone, rresult, nonRetryVars>>

\* case <-ctx.Done(): return nil, ctx.Err()
RetrySleepCancelled ==
    /\ rpc = "sleep"
    /\ ctxDone
    /\ rpc' = "done"
    /\ rresult' = [returned |-> TRUE, resp |-> NoResp, err |-> [kind |-> "ctx", at |-> attempt]]
    /\ UNCHANGED <<rvariant, attempt, resp, err, delay, outcomes, slept, ctxDone, nonRetryVars>>

\* the caller's context is cancelled at any moment of the call
RetryCancel ==
    /\ rpc \in {"head", "sleep", "build", "do"}
    /\ ~ctxDone
    /\ ctxDone' = TRUE
    /\ UNCHANGED <<rvariant, rpc, attempt, resp, err, delay, outcomes, slept, rresult, nonRetryVars>>

\* req, err = buildReq(); if err != nil { return nil, err }
RetryBuild ==
    /\ rpc = "build"
    /\ \E ok \in BOOLEAN :
          IF ok
          THEN /\ rpc' = "do"
               /\ err' = NoErr
               /\ UNCHANGED rresult
          ELSE /\ rpc' = "done"
               /\ err' = [kind |-> "build", at |-> attempt]
               /\ rresult' = [returned |-> TRUE, resp |-> NoResp,
                              err |-> [kind |-> "build", at |-> attempt]]
    /\ UNCHANGED <<rvariant, attempt, resp, delay, outcomes, slept, ctxDone, nonRetryVars>>

\* resp, err = client.Do(req) fails: network errors are retryable
RetryDoNetErr ==
    /\ rpc = "do"
    /\ resp' = NoResp
    /\ err' = [kind |-> "net", at |-> attempt]
    /\ outcomes' = Append(outcomes, 0)
    /\ attempt' = attempt + 1
    /\ rpc' = "head"
    /\ UNCHANGED <<rvariant, delay, slept, ctxDone, rresult, nonRetryVars>>

\* resp, err = client.Do(req) answers: return it, or close its body and go on
RetryDoResp ==
    /\ rpc = "do"
    /\ \E r \in Responses :
          /\ outcomes' = Append(outcomes, r.status)
          /\ err' = NoErr
          /\ IF ~retryableStatusCode(r.status)
             THEN /\ resp' = r
                  /\ rpc' = "done"
                  /\ rresult' = [returned |-> TRUE, resp |-> r, err |-> NoErr]
                  /\ UNCHANGED attempt
             ELSE /\ resp' = [r EXCEPT !.closed = TRUE]
                  /\ attempt' = attempt + 1
                  /\ rpc' = "head"
                  /\ UNCHANGED rresult
    /\ UNCHANGED <<rvariant, delay, slept, ctxDone, nonRetryVars>>

RetryNext ==
    \/ RetryHead
    \/ RetrySleepTimer
    \/ RetrySleepCancelled
    \/ RetryCancel
    \/ RetryBuild
    \/ RetryDoNetErr
    \/ RetryDoResp


(***************************************************************************)
(* Strings of the exec tool: strings.Contains, HasPrefix, ToLower, Fields, *)
(* and path/filepath's Base, Clean and Rel (Unix).                         *)
(***************************************************************************)
Contains(s, sub) ==
    \E i \in 0..(Len(s) - Len(sub)) : SubSeq(s, i + 1, i + Len(sub)) = sub

HasPrefix(s, pre) == Len(s) >= Len(pre) /\ SubSeq(s, 1, Len(pre)) = pre

UpperLetters ==
    <<"A", "B", "C", "D", "E", "F", "G", "H", "I", "J", "K", "L", "M",
      "N", "O", "P", "Q", "R", "S", "T", "U", "V", "W", "X", "Y", "Z">>

LowerLetters ==
    <<"a", "b", "c", "d", "e", "f", "g", "h", "i", "j", "k", "l", "m",
      "n", "o", "p", "q", "r", "s", "t", "u", "v", "w", "x", "y", "z">>

ToLowerChar(c) ==
    IF \E i \in 1..26 : UpperLetters[i] = c
    THEN LowerLetters[CHOOSE i \in 1..26 : UpperLetters[i] = c]
    ELSE c

ToLower(s) == [i \in 1..Len(s) |-> ToLowerChar(s[i])]

IsSpace(c) == c \in {" ", "\t", "\n"}

\* strings.Fields: the maximal runs of non-space characters
RECURSIVE FieldsFrom(_, _, _)
FieldsFrom(s, i, acc) ==
    IF i > Len(s) THEN (IF acc = <<>> THEN <<>> ELSE <<acc>>)
    ELSE IF IsSpace(s[i])
         THEN (IF acc = <<>> THEN <<>> ELSE <<acc>>) \o FieldsFrom(s, i + 1, <<>>)
         ELSE FieldsFrom(s, i + 1, Append(acc, s[i]))

Fields(s) == FieldsFrom(s, 1, <<>>)

\* the path elements between slashes, empty ones included
RECURSIVE SplitSlash(_, _, _)
SplitSlash(s, i, acc) ==
    IF i > Len(s) THEN <<acc>>
    ELSE IF s[i] = "/" THEN <<acc>> \o SplitSlash(s, i + 1, <<>>)
         ELSE SplitSlash(s, i + 1, Append(acc, s[i]))

RECURSIVE JoinSlash(_)
JoinSlash(comps) ==
    IF comps = <<>> THEN <<>>
    ELSE IF Len(comps) = 1 THEN comps[1]
         ELSE comps[1] \o <<"/">> \o JoinSlash(Tail(comps))

RECURSIVE StripTrailingSlashes(_)
StripTrailingSlashes(s) ==
    IF s # <<>> /\ s[Len(s)] = "/"
    THEN StripTrailingSlashes(SubSeq(s, 1, Len(s) - 1))
    ELSE s

\* filepath.Base: the last element of the path, trailing slashes removed;
\* "." for the empty path, "/" for a path of slashes only
Base(path) ==
    IF path = <<>> THEN <<".">>
    ELSE LET t == StripTrailingSlashes(path)
             parts == SplitSlash(t, 1, <<>>)
         IN  IF t = <<>> THEN <<"/">> ELSE parts[Len(parts)]

\* filepath.Clean, as the elements of the cleaned path: no empty element, no
\* ".", and ".." resolved against the element before it (dropped at the
\* root, kept at the start of a relative path)
RECURSIVE CleanElems(_, _, _)
CleanElems(rooted, todo, done) ==
    IF todo = <<>> THEN done
    ELSE LET e == todo[1]
         IN  IF e = <<>> \/ e = <<".">>
             THEN CleanElems(rooted, Tail(todo), done)
             ELSE IF e = <<".", ".">>
                  THEN IF done # <<>> /\ done[Len(done)] # <<".", ".">>
                       THEN CleanElems(rooted, Tail(todo), SubSeq(done, 1, Len(done) - 1))
                       ELSE IF rooted
                            THEN CleanElems(rooted, Tail(todo), done)
                            ELSE CleanElems(rooted, Tail(todo), Append(done, e))
                  ELSE CleanElems(rooted, Tail(todo), Append(done, e))

IsRooted(path) == path # <<>> /\ path[1] = "/"

Clean(path) == CleanElems(IsRooted(path), SplitSlash(path, 1, <<>>), <<>>)

RECURSIVE CommonPrefixLen(_, _)
CommonPrefixLen(a, b) ==
    IF a = <<>> \/ b = <<>> \/ a[1] # b[1] THEN 0
    ELSE 1 + CommonPrefixLen(Tail(a), Tail(b))

\* filepath.Rel(basepath, targpath): [ok, path]
Rel(basepath, targpath) ==
    LET b == Clean(basepath)
        t == Clean(targpath)
        c == CommonPrefixLen(b, t)
        rest == SubSeq(t, c + 1, Len(t))
        ups == [i \in 1..(Len(b) - c) |-> <<".", ".">>]
    IN  IF IsRooted(basepath) # IsRooted(targpath)
        THEN [ok |-> FALSE, path |-> <<>>]
        ELSE IF b = t THEN [ok |-> TRUE, path |-> <<".">>]
        ELSE IF c < Len(b) /\ b[c + 1] = <<".", ".">>
             THEN [ok |-> FALSE, path |-> <<>>]
             ELSE [ok |-> TRUE, path |-> JoinSlash(ups \o rest)]

(***************************************************************************)
(* exec.go                                                                 *)
(***************************************************************************)
dangerous ==
    { <<"r", "m">>, <<"s", "u", "d", "o">>, <<"d", "d">>, <<"m", "k", "f", "s">>,
      <<"s", "h", "u", "t", "d", "o", "w", "n">>, <<"r", "e", "b", "o", "o", "t">>,
      <<"b", "a", "s", "h">>, <<"s", "h">>, <<"z", "s", "h">>, <<"n", "c">>,
      <<"n", "e", "t", "c", "a", "t">>, <<"n", "m", "a", "p">> }

interpreters ==
    { <<"p", "y", "t", "h", "o", "n">>, <<"p", "y", "t", "h", "o", "n", "3">>,
      <<"p", "e", "r", "l">>, <<"r", "u", "b", "y">>, <<"n", "o", "d", "e">> }

packageManagers == { <<"p", "i", "p">>, <<"p", "i", "p", "3">>, <<"u", "v">> }

\* isDangerousProg without strings.ToLower
isDangerousProgCaseSensitive(prog) == Base(prog) \in dangerous

isDangerousProg(prog) == ToLower(Base(prog)) \in dangerous

isInterpreter(prog) == ToLower(Base(prog)) \in interpreters

isPackageManager(prog) == ToLower(Base(prog)) \in packageManagers

\* hasUnsafeArg without its list of shell meta-characters
hasUnsafeArgWithoutMeta(v, s) ==
    \/ v = 1 /\ Contains(s, <<"/">>)
    \/ Contains(s, <<".", ".">>)
    \/ Contains(s, <<"~">>)

\* hasUnsafeArg: the first copy also rejects "/".  The backquote character is
\* written "backquote".
hasUnsafeArg(v, s) ==
    \/ v = 1 /\ Contains(s, <<"/">>)
    \/ Contains(s, <<".", ".">>)
    \/ Contains(s, <<"~">>)
    \/ \E m \in {";", "&", "|", ">", "<", "$", "backquote"} : Contains(s, <<m>>)

NoExecErr == [kind |-> "nil", arg |-> <<>>]

ExecErr(k, a) == [kind |-> k, arg |-> a]

NoExecResult == [returned |-> FALSE, out |-> "", err |-> NoExecErr]

\* cmdRaw, ok := args["cmd"] and the type switch on it: [err, argv]
cmdTypeSwitch(v, raw) ==
    CASE raw.type = "missing" -> [err |-> ExecErr("cmd required", <<>>), argv |-> <<>>]
      [] raw.type = "string" ->
            IF Fields(raw.text) = <<>>
            THEN [err |-> ExecErr("empty cmd string", <<>>), argv |-> <<>>]
            ELSE [err |-> NoExecErr, argv |-> Fields(raw.text)]
      [] raw.type = "array" ->
            IF raw.elems = <<>>
            THEN [err |-> ExecErr("empty cmd array", <<>>), argv |-> <<>>]
            ELSE IF \E i \in 1..Len(raw.elems) : ~raw.elems[i].isString
                 THEN [err |-> ExecErr("cmd array must contain strings only", <<>>),
                       argv |-> <<>>]
                 ELSE [err |-> NoExecErr,
                       argv |-> [i \in 1..Len(raw.elems) |-> raw.elems[i].s]]
      [] OTHER -> [err |-> ExecErr("unsupported cmd type", <<>>), argv |-> <<>>]

parseCmd(v, raw) ==
    IF v = 1 /\ raw.type = "string"
    THEN [err |-> ExecErr("string commands are disallowed", <<>>), argv |-> <<>>]
    ELSE cmdTypeSwitch(v, raw)

\* a package manager whose arguments get the generic check
pkgMgrArgUnsafeGeneric(v, a) == hasUnsafeArg(v, a)

\* package-manager mode: strings.Contains(a, "..")
pkgMgrArgUnsafe(v, a) == Contains(a, <<".", ".">>)

\* an interpreter mode that lets ".." through in the script path
scriptPathTraversalIgnored(a) == FALSE

\* interpreter mode, the script path: strings.Contains(a, "..")
scriptPathTraversal(a) == Contains(a, <<".", ".">>)

\* an interpreter mode that validates the code after -c like any argument
isInlineCodeNever(av, idx) == FALSE

\* interpreter mode of the first copy: the argument after -c is source code
isInlineCode(av, idx) == idx >= 2 /\ Len(av) >= 3 /\ av[2] = <<"-", "c">> /\ idx = 2

\* the check of argument a = av[idx + 1] (idx counts from 0 as in the code):
\* [kind: "ok" | an error kind, av: argv after the check]
checkArg(v, dir, av, idx) ==
    LET a == av[idx + 1]
        prog == av[1]
        ok == [kind |-> "ok", av |-> av]
        unsafe == [kind |-> "argument looks unsafe", av |-> av]
        outside == [kind |-> "script path is outside workspace", av |-> av]
        rel == Rel(dir, a)
        rewritten == IF rel.ok /\ ~HasPrefix(rel.path, <<".", ".">>)
                     THEN [kind |-> "ok", av |-> [av EXCEPT ![idx + 1] = rel.path]]
                     ELSE outside
        generic == IF hasUnsafeArg(v, a) THEN unsafe ELSE ok
    IN  IF isPackageManager(prog)
        THEN IF pkgMgrArgUnsafe(v, a) THEN unsafe ELSE ok
        ELSE IF ~isInterpreter(prog) THEN generic
        ELSE IF v = 1
             THEN IF isInlineCode(av, idx) THEN ok
                  ELSE IF idx = 1 /\ a # <<"-", "c">> /\ ~scriptPathTraversal(a)
                       THEN IF HasPrefix(a, <<"/">>) /\ dir # <<>> THEN rewritten ELSE ok
                       ELSE generic
             ELSE IF idx = 1 /\ scriptPathTraversal(a) THEN unsafe
                  ELSE IF idx = 1 /\ HasPrefix(a, <<"/">>) /\ dir # <<>> THEN rewritten
                       ELSE ok

\* for i, a := range argv[1:] { ... }: stops at the first rejected argument
RECURSIVE checkArgsFrom(_, _, _, _)
checkArgsFrom(v, dir, av, idx) ==
    IF idx >= Len(av) THEN [err |-> NoExecErr, argv |-> av]
    ELSE LET r == checkArg(v, dir, av, idx)
         IN  IF r.kind = "ok" THEN checkArgsFrom(v, dir, r.av, idx + 1)
             ELSE [err |-> ExecErr(r.kind, av[idx + 1]), argv |-> av]

\* the check of the second copy for the command uv run pip
isUvRunPip(v, av) ==
    /\ v = 2
    /\ ToLower(Base(av[1])) = <<"u", "v">>
    /\ Len(av) >= 3
    /\ av[2] = <<"r", "u", "n">>
    /\ av[3] = <<"p", "i", "p">>

\* everything Execute checks between the type switch and the spawn:
\* [err, argv], argv with the script path rewritten
validate(v, dir, av) ==
    IF isDangerousProg(av[1])
    THEN [err |-> ExecErr("program is disallowed", av[1]), argv |-> av]
    ELSE IF isUvRunPip(v, av)
         THEN [err |-> ExecErr("wrong syntax uv run pip", <<>>), argv |-> av]
         ELSE checkArgsFrom(v, dir, av, 1)

\* ---- the inputs
Str(s) == [isString |-> TRUE, s |-> s]

NotAString == [isString |-> FALSE, s |-> <<>>]

ExecPrograms ==
    { <<"r", "m">>, <<"R", "m">>, <<"/", "b", "i", "n", "/", "r", "m">>,
      <<"r", "m", "/">>, <<"/", "x", "/", "S", "U", "D", "O">>,
      <<"n", "m", "a", "p">>, <<"s", "h">>,
      <<"l", "s">>, <<"s", "h", "/", "l", "s">>, <<"r", "m", "x">>, <<>>, <<"/">>,
      <<"p", "y", "t", "h", "o", "n", "3">>, <<"/", "b", "/", "N", "o", "d", "e">>,
      <<"p", "i", "p">>, <<"b", "/", "P", "i", "p", "3">>, <<"u", "v">> }

ExecArgs ==
    { <<"-", "l", "a">>, <<"/", "e", "t", "c">>, <<".", ".", "/", "x">>,
      <<"a", ";", "b">>, <<"-", "c">>, <<"r", "u", "n">>, <<"p", "i", "p">>,
      <<"/", "w", "s", "/", "s", ".", "p", "y">>, <<"~">>,
      <<"/", "w", "s", "/", ".", ".", "/", "x">>, <<"b", "/", "s", ".", "p", "y">>,
      <<"&">>, <<"|">>, <<">">>, <<"<">>, <<"$">>, <<"backquote">> }

\* the argument lists: up to two arguments, and three when the first is -c
ExecArgLists ==
    {<<>>} \cup {<<a>> : a \in ExecArgs} \cup {<<a, b>> : a \in ExecArgs, b \in ExecArgs}
       \cup {<<<<"-", "c">>, a, b>> : a \in ExecArgs, b \in ExecArgs}

\* a command line as one string: the elements joined by single spaces
RECURSIVE JoinSpace(_)
JoinSpace(av) ==
    IF av = <<>> THEN <<>>
    ELSE IF Len(av) = 1 THEN av[1]
         ELSE av[1] \o <<" ">> \o JoinSpace(Tail(av))

Cmd(t, text, elems) == [type |-> t, text |-> text, elems |-> elems]

ExecCmds ==
    {Cmd("missing", <<>>, <<>>), Cmd("number", <<>>, <<>>),
     Cmd("array", <<>>, <<>>),
     Cmd("array", <<>>, <<Str(<<"l", "s">>), NotAString>>),
     Cmd("string", <<>>, <<>>),
     Cmd("string", <<" ", " ">>, <<>>)}
        \cup {Cmd("array", <<>>, [i \in 1..(Len(l) + 1) |->
                    IF i = 1 THEN Str(p) ELSE Str(l[i - 1])]) :
                p \in ExecPrograms, l \in ExecArgLists}
        \cup {Cmd("string", JoinSpace(<<p>> \o l), <<>>) :
                p \in ExecPrograms \ {<<>>}, l \in {<<>>} \cup {<<a>> : a \in ExecArgs}}

Workspaces == { <<>>, <<"/", "w", "s">>, <<"w", "s">> }

ExecInit ==
    /\ evariant \in {1, 2}
    /\ allowedDir \in Workspaces
    /\ epc = "received"
    /\ cmdRaw \in ExecCmds
    /\ argv = <<>>
    /\ eresult = NoExecResult
    /\ spawned = 0

ExecIdle ==
    /\ evariant = 1
    /\ allowedDir = <<>>
    /\ epc = "off"
    /\ cmdRaw = Cmd("missing", <<>>, <<>>)
    /\ argv = <<>>
    /\ eresult = NoExecResult
    /\ spawned = 0

\* Execute, lines 129-154 (359-387): read args["cmd"] into argv
ExecParse ==
    /\ epc = "received"
    /\ LET r == parseCmd(evariant, cmdRaw)
       IN  IF r.err # NoExecErr
           THEN /\ epc' = "done"
                /\ eresult' = [returned |-> TRUE, out |-> "", err |-> r.err]
                /\ UNCHANGED argv
           ELSE /\ epc' = "parsed"
                /\ argv' = r.argv
                /\ UNCHANGED eresult
    /\ UNCHANGED <<evariant, allowedDir, cmdRaw, spawned, nonExecVars>>

\* a call that starts the process first and checks its arguments after
ExecValidateAfterSpawn ==
    /\ epc = "parsed"
    /\ LET r == validate(evariant, allowedDir, argv)
       IN  IF r.err # NoExecErr
           THEN /\ epc' = "done"
                /\ eresult' = [returned |-> TRUE, out |-> "", err |-> r.err]
                /\ UNCHANGED argv
           ELSE /\ epc' = "validated"
                /\ argv' = r.argv
                /\ UNCHANGED eresult
    /\ spawned' = spawned + 1
    /\ UNCHANGED <<evariant, allowedDir, cmdRaw, nonExecVars>>

\* Execute, lines 156-204 (389-441): the program and argument checks
ExecValidate ==
    /\ epc = "parsed"
    /\ LET r == validate(evariant, allowedDir, argv)
       IN  IF r.err # NoExecErr
           THEN /\ epc' = "done"
                /\ eresult' = [returned |-> TRUE, out |-> "", err |-> r.err]
                /\ UNCHANGED argv
           ELSE /\ epc' = "validated"
                /\ argv' = r.argv
                /\ UNCHANGED eresult
    /\ UNCHANGED <<evariant, allowedDir, cmdRaw, spawned, nonExecVars>>

\* exec.CommandContext(cctx, prog, argv[1:]...) and the start of
\* cmd.CombinedOutput(): the process starts, or the program cannot be started
ExecSpawn ==
    /\ epc = "validated"
    /\ \E ok \in BOOLEAN :
          IF ok
          THEN /\ epc' = "spawned"
               /\ spawned' = spawned + 1
               /\ UNCHANGED eresult
          ELSE /\ epc' = "done"
               /\ eresult' = [returned |-> TRUE, out |-> "",
                              err |-> ExecErr("exec error", <<>>)]
               /\ UNCHANGED spawned
    /\ UNCHANGED <<evariant, allowedDir, cmdRaw, argv, nonExecVars>>

\* the process ends: exit 0, a non-zero exit, or killed at the timeout
ExecFinish ==
    /\ epc = "spawned"
    /\ \E how \in {"completed", "failed", "timedout"} :
          eresult' = [returned |-> TRUE, out |-> how,
                      err |-> IF how = "completed" THEN NoExecErr
                              ELSE ExecErr("exec error", <<>>)]
    /\ epc' = "done"
    /\ UNCHANGED <<evariant, allowedDir, cmdRaw, argv, spawned, nonExecVars>>

ExecNext ==
    \/ ExecParse
    \/ ExecValidate
    \/ ExecSpawn
    \/ ExecFinish

(***************************************************************************)
(* chat.Hub and the tasks around it.  The Hub itself and the AgentLoop are *)
(* not among the source files: they follow the specification (sections     *)
(* 4.1 and 4.8).  The channel operations of the Telegram adapter, the      *)
(* Heartbeat and the MessageTool are the code's.                           *)
(***************************************************************************)
\* the larger of the two capacities of the Hub queues (chat.NewHub(n), n in {1, HubCap})
HubCap == 2

\* number of Inbound envelopes that ever enter Hub.In
MaxInbound == 2

\* agents.defaults.max_tool_iterations
MaxToolIterations == 2

NoInbound == [channel |-> "", chat |-> "", sender |-> "", seq |-> 0]

Inbound(ch, chat, sender, n) == [channel |-> ch, chat |-> chat, sender |-> sender, seq |-> n]

Outbound(ch, chat, content) == [channel |-> ch, chat |-> chat, content |-> content]

TgSenders == {"u1", "u2"}

TgChats == {"t1"}

\* the Telegram poller, for each update (part_001 89-111): a message of a
\* sender in allow_from is kept to be sent to Hub.In, any other is dropped
TgPoll ==
    /\ tgPending = NoInbound
    /\ nextSeq <= MaxInbound
    /\ \E from \in TgSenders, chat \in TgChats :
          IF allowFrom = {} \/ from \notin allowFrom
          THEN UNCHANGED tgPending
          ELSE tgPending' = Inbound("telegram", chat, from, 0)
    /\ UNCHANGED <<hubIn, hubOut, hubCap, hbFile, allowFrom, nextSeq, loopVars, nonLoopVars>>

\* hub.In <- chat.Inbound{...} (part_001 112-118): blocks while Hub.In is full
TgSend ==
    /\ tgPending # NoInbound
    /\ Len(hubIn) < hubCap
    /\ nextSeq <= MaxInbound
    /\ hubIn' = Append(hubIn, [tgPending EXCEPT !.seq = nextSeq])
    /\ nextSeq' = nextSeq + 1
    /\ tgPending' = NoInbound
    /\ UNCHANGED <<hubOut, hubCap, hbFile, allowFrom, loopVars, nonLoopVars>>

\* HEARTBEAT.md as os.ReadFile finds it: unreadable, or readable with its data
HeartbeatFile(readable, data) == [readable |-> readable, data |-> data]

HeartbeatTasks == HeartbeatFile(TRUE, <<"t">>)

HeartbeatFiles ==
    {HeartbeatFile(FALSE, <<>>)} \cup
    {HeartbeatFile(TRUE, d) : d \in {<<" ", "\n">>, <<"t">>, <<" ", "t", "\n">>}}

\* strings.TrimSpace
RECURSIVE TrimLeft(_)
TrimLeft(s) == IF s # <<>> /\ IsSpace(Head(s)) THEN TrimLeft(Tail(s)) ELSE s

RECURSIVE TrimRight(_)
TrimRight(s) ==
    IF s # <<>> /\ IsSpace(s[Len(s)]) THEN TrimRight(SubSeq(s, 1, Len(s) - 1)) ELSE s

TrimSpace(s) == TrimRight(TrimLeft(s))

\* whether a tick has something to send: the file is read and its trimmed
\* content is not empty (service.go 28-36)
heartbeatHasTasks(f) == f.readable /\ TrimSpace(f.data) # <<>>

\* a Heartbeat that sends as the channel adapters do, waiting for room
HeartbeatTickBlocking ==
    /\ nextSeq <= MaxInbound
    /\ heartbeatHasTasks(hbFile) => Len(hubIn) < hubCap
    /\ IF heartbeatHasTasks(hbFile)
       THEN /\ hubIn' = Append(hubIn, Inbound("heartbeat", "system", "heartbeat", nextSeq))
            /\ nextSeq' = nextSeq + 1
       ELSE UNCHANGED <<hubIn, nextSeq>>
    /\ UNCHANGED <<hubOut, hubCap, hbFile, allowFrom, tgPending, loopVars, nonLoopVars>>

\* one tick of the Heartbeat (service.go 26-49): an unreadable or blank
\* HEARTBEAT.md is skipped; otherwise one Inbound is sent without blocking,
\* and dropped when Hub.In is full
HeartbeatTick ==
    /\ nextSeq <= MaxInbound
    /\ IF heartbeatHasTasks(hbFile) /\ Len(hubIn) < hubCap
       THEN /\ hubIn' = Append(hubIn, Inbound("heartbeat", "system", "heartbeat", nextSeq))
            /\ nextSeq' = nextSeq + 1
       ELSE UNCHANGED <<hubIn, nextSeq>>
    /\ UNCHANGED <<hubOut, hubCap, hbFile, allowFrom, tgPending, loopVars, nonLoopVars>>

\* HEARTBEAT.md is written, emptied or removed between two ticks
HeartbeatFileWrite ==
    /\ \E f \in HeartbeatFiles : hbFile' = f
    /\ hbFile' # hbFile
    /\ UNCHANGED <<hubIn, hubOut, hubCap, allowFrom, tgPending, nextSeq, loopVars,
                   nonLoopVars>>

\* the Telegram outbound sender (part_001 132-155): takes the next Outbound
\* of Hub.Out, whatever its channel, and sends it only if it is Telegram's
TgOutbound ==
    /\ hubOut # <<>>
    /\ hubOut' = Tail(hubOut)
    /\ UNCHANGED <<hubIn, hubCap, hbFile, allowFrom, tgPending, nextSeq, loopVars, nonLoopVars>>

\* a MessageTool that addresses its Outbound to no conversation
MessageToolExecuteWithoutContext(ctx, content, out) ==
    IF content = ""
    THEN [res |-> "", err |-> "message tool: 'content' argument required", out |-> out]
    ELSE IF Len(out) < hubCap
         THEN [res |-> "sent", err |-> "", out |-> Append(out, Outbound("", "", content))]
         ELSE [res |-> "", err |-> "outbound channel full", out |-> out]

\* a MessageTool that makes room on a full queue by dropping its oldest entry
MessageToolExecuteDropOldest(ctx, content, out) ==
    IF content = ""
    THEN [res |-> "", err |-> "message tool: 'content' argument required", out |-> out]
    ELSE [res |-> "sent", err |-> "",
          out |-> Append(IF Len(out) < hubCap THEN out ELSE Tail(out),
                         Outbound(ctx[1], ctx[2], content))]

\* MessageTool.Execute (message.go 46-72) with the given content on the
\* queue out: [res, err, out]
MessageToolExecute(ctx, content, out) ==
    IF content = ""
    THEN [res |-> "", err |-> "message tool: 'content' argument required", out |-> out]
    ELSE IF Len(out) < hubCap
         THEN [res |-> "sent", err |-> "",
               out |-> Append(out, Outbound(ctx[1], ctx[2], content))]
         ELSE [res |-> "", err |-> "outbound channel full", out |-> out]

(***************************************************************************)
(* The AgentLoop (specification, section 4.8).                             *)
(***************************************************************************)
\* the tools of the registry
ToolNames == {"exec", "message"}

\* the tool calls a provider may ask for in one response: known and unknown
\* names, ids that repeat
ToolCall(id, name, content) == [id |-> id, name |-> name, content |-> content]

ToolCallLists ==
    { <<ToolCall("c1", "exec", "")>>,
      <<ToolCall("c1", "ghost", ""), ToolCall("c1", "exec", "")>>,
      <<ToolCall("c1", "message", "hi"), ToolCall("c2", "ghost", "")>> }

NoCalls == <<>>

\* the LLMResponse values of the model, and a failed call
ProviderResponses(p) ==
    IF p = "stub"
    THEN {[failed |-> FALSE, content |-> "echo", calls |-> NoCalls]}
    ELSE {[failed |-> TRUE, content |-> "", calls |-> NoCalls]}
            \cup {[failed |-> FALSE, content |-> "answer", calls |-> NoCalls]}
            \cup {[failed |-> FALSE, content |-> "", calls |-> l] : l \in ToolCallLists}

AssistantMsg(content, calls) ==
    [role |-> "assistant", content |-> content, calls |-> calls, id |-> ""]

\* a tool-result that does not carry its tool_call_id
ToolMsgWithoutId(id, content) ==
    [role |-> "tool", content |-> content, calls |-> NoCalls, id |-> ""]

ToolMsg(id, content) ==
    [role |-> "tool", content |-> content, calls |-> NoCalls, id |-> id]

\* a cap that ends the turn with no text
capFinalEmpty == ""

\* the final answer when the iteration cap trips
capFinal == "reached tool-iteration limit"

apology == "sorry, the provider failed"

\* the text of the tool-result of an unknown tool, "unknown tool: <name>"
unknownToolText(name) == <<"unknown tool: ", name>>

LoopInit ==
    /\ hubIn = <<>>
    /\ hubOut = <<>>
    /\ hubCap \in {1, HubCap}
    /\ allowFrom = {"u1"}
    /\ tgPending = NoInbound
    /\ nextSeq = 1
    /\ provider \in {"stub", "llm"}
    /\ lpc = "idle"
    /\ cur = NoInbound
    /\ iter = 0
    /\ conv = <<>>
    /\ pending = NoCalls
    /\ final = ""
    /\ mtCtx = <<"", "">>
    /\ provCalls = 0
    /\ toolExecs = 0
    /\ capTripped = FALSE
    /\ started = 0
    /\ finished = 0
    /\ published = <<>>

LoopIdle ==
    /\ hubIn = <<>>
    /\ hubOut = <<>>
    /\ hubCap = 1
    /\ hbFile = HeartbeatTasks
    /\ allowFrom = {}
    /\ tgPending = NoInbound
    /\ nextSeq = 1
    /\ provider = "stub"
    /\ lpc = "off"
    /\ cur = NoInbound
    /\ iter = 0
    /\ conv = <<>>
    /\ pending = NoCalls
    /\ final = ""
    /\ mtCtx = <<"", "">>
    /\ provCalls = 0
    /\ toolExecs = 0
    /\ capTripped = FALSE
    /\ started = 0
    /\ finished = 0
    /\ published = <<>>

\* a loop that takes the newest queued Inbound
nextInboundNewest(q) == Len(q)

\* which queued Inbound the loop takes: the oldest
nextInbound(q) == 1

\* step 1: dequeue an Inbound, build the prompt, set the MessageTool's context
LoopDequeue ==
    /\ lpc = "idle"
    /\ hubIn # <<>>
    /\ LET i == nextInbound(hubIn)
       IN  /\ cur' = hubIn[i]
           /\ hubIn' = SubSeq(hubIn, 1, i - 1) \o SubSeq(hubIn, i + 1, Len(hubIn))
           /\ mtCtx' = <<hubIn[i].channel, hubIn[i].chat>>
    /\ lpc' = "provider"
    /\ iter' = 0
    /\ conv' = <<>>
    /\ pending' = NoCalls
    /\ final' = ""
    /\ provCalls' = 0
    /\ toolExecs' = 0
    /\ capTripped' = FALSE
    /\ started' = started + 1
    /\ UNCHANGED <<hubOut, hubCap, hbFile, allowFrom, tgPending, nextSeq, provider, finished, published,
                   nonLoopVars>>

\* a loop that goes round once more than max_tool_iterations
mayIterateUnbounded(n) == n < MaxToolIterations + 1

\* whether the loop goes round again: "loop for up to max_tool_iterations"
mayIterate(n) == n < MaxToolIterations

\* steps 2a-2c: call the provider; no tool calls ends the turn with the
\* content, a failed call ends it with an apology
LoopProviderCall ==
    /\ lpc = "provider"
    /\ mayIterate(iter)
    /\ \E r \in ProviderResponses(provider) :
          /\ provCalls' = provCalls + 1
          /\ iter' = iter + 1
          /\ IF r.failed
             THEN /\ final' = apology
                  /\ lpc' = "publish"
                  /\ UNCHANGED <<conv, pending>>
             ELSE IF r.calls = NoCalls
                  THEN /\ conv' = Append(conv, AssistantMsg(r.content, NoCalls))
                       /\ final' = r.content
                       /\ lpc' = "publish"
                       /\ UNCHANGED pending
                  ELSE /\ conv' = Append(conv, AssistantMsg(r.content, r.calls))
                       /\ pending' = r.calls
                       /\ lpc' = "tools"
                       /\ UNCHANGED final
    /\ UNCHANGED <<hubVars, provider, cur, mtCtx, toolExecs, capTripped, started,
                   finished, published, nonLoopVars>>

\* a registry whose unknown tool ends the turn
runToolAborting(call, out) ==
    IF call.name \notin ToolNames
    THEN {[text |-> "", abort |-> TRUE, out |-> out]}
    ELSE IF call.name = "message"
         THEN LET m == MessageToolExecute(mtCtx, call.content, out)
              IN  {[text |-> IF m.err # "" THEN m.err ELSE m.res, abort |-> FALSE,
                    out |-> m.out]}
         ELSE {[text |-> t, abort |-> FALSE, out |-> out] :
                 t \in {"output", "exec: rejected"}}

\* the outcome of one tool call: [text, abort, out] with text the
\* tool-result's content and out the Hub.Out it leaves.  An unknown name and
\* a failed tool give the error text.
runTool(call, out) ==
    IF call.name \notin ToolNames
    THEN {[text |-> unknownToolText(call.name), abort |-> FALSE, out |-> out]}
    ELSE IF call.name = "message"
         THEN LET m == MessageToolExecute(mtCtx, call.content, out)
              IN  {[text |-> IF m.err # "" THEN m.err ELSE m.res, abort |-> FALSE,
                    out |-> m.out]}
         ELSE {[text |-> t, abort |-> FALSE, out |-> out] :
                 t \in {"output", "exec: rejected"}}

\* step 2d: run the next tool call of the assistant message and append its
\* role:tool message
LoopToolExec ==
    /\ lpc = "tools"
    /\ pending # NoCalls
    /\ \E r \in runTool(Head(pending), hubOut) :
          /\ hubOut' = r.out
          /\ toolExecs' = toolExecs + 1
          /\ IF r.abort
             THEN /\ final' = apology
                  /\ lpc' = "publish"
                  /\ pending' = NoCalls
                  /\ UNCHANGED conv
             ELSE /\ conv' = Append(conv, ToolMsg(Head(pending).id, r.text))
                  /\ pending' = Tail(pending)
                  /\ lpc' = IF Tail(pending) = NoCalls THEN "provider" ELSE "tools"
                  /\ UNCHANGED final
    /\ UNCHANGED <<hubIn, hubCap, hbFile, allowFrom, tgPending, nextSeq, provider, cur, iter, mtCtx,
                   provCalls, capTripped, started, finished, published, nonLoopVars>>

\* step 3: the cap trips
LoopCapTrips ==
    /\ lpc = "provider"
    /\ ~mayIterate(iter)
    /\ final' = capFinal
    /\ capTripped' = TRUE
    /\ lpc' = "publish"
    /\ UNCHANGED <<hubVars, provider, cur, iter, conv, pending, mtCtx, provCalls,
                   toolExecs, started, finished, published, nonLoopVars>>

\* step 4: publish the final answer, without blocking: a full Hub.Out drops
\* it; the turn and its messages end here
LoopPublish ==
    /\ lpc = "publish"
    /\ IF Len(hubOut) < hubCap
       THEN /\ hubOut' = Append(hubOut, Outbound(cur.channel, cur.chat, final))
            /\ published' = Append(published, cur)
       ELSE UNCHANGED <<hubOut, published>>
    /\ finished' = finished + 1
    /\ lpc' = "idle"
    /\ cur' = NoInbound
    /\ iter' = 0
    /\ conv' = <<>>
    /\ pending' = NoCalls
    /\ final' = ""
    /\ provCalls' = 0
    /\ toolExecs' = 0
    /\ capTripped' = FALSE
    /\ UNCHANGED <<hubIn, hubCap, hbFile, allowFrom, tgPending, nextSeq, provider, mtCtx, started,
                   nonLoopVars>>

LoopStep ==
    \/ LoopProviderCall
    \/ LoopToolExec
    \/ LoopCapTrips
    \/ LoopPublish

LoopNext ==
    \/ TgPoll
    \/ TgSend
    \/ HeartbeatTick
    \/ TgOutbound
    \/ LoopDequeue
    \/ LoopStep

(***************************************************************************)
(* memory.MemoryStore (store.go 24-119): two lists behind a sync.RWMutex,  *)
(* called by tasks that run concurrently.  A writer takes the lock,        *)
(* appends, trims and releases; a reader takes the read lock, walks the    *)
(* short list and then the long list, and releases.                        *)
(***************************************************************************)
\* number of AddShort and AddLong calls in all
MaxAdds == 3

defaultLimit == 100

\* the limit arguments of NewMemoryStore
MemLimits == {0, 1, 2}

MemWriters == {"w1", "w2"}

MemReaders == {"r1"}

MemTasks == MemWriters \cup MemReaders

MemTexts == {<<"A", "b">>, <<"b">>}

MemKeywords == {<<>>, <<"a">>, <<"B">>}

MemCounts == 0..3

NoTask == "none"

NoCall == [op |-> "none", text |-> <<>>, n |-> 0]

MemoryItem(kind, text, ts) == [Kind |-> kind, Text |-> text, Timestamp |-> ts]

\* NewMemoryStoreWithWorkspace (store.go 40-54)
NewMemoryStore(lim) == IF lim <= 0 THEN defaultLimit ELSE lim

\* a trim that keeps the oldest items
trimShortKeepOldest(list, lim) ==
    IF Len(list) > lim THEN SubSeq(list, 1, lim) ELSE list

\* s.short[len(s.short)-s.limit:] when over the limit (store.go 63-65)
trimShort(list, lim) ==
    IF Len(list) > lim THEN SubSeq(list, Len(list) - lim + 1, Len(list)) ELSE list

\* strings.Contains(strings.ToLower(item.Text), k), k the lowered keyword
memMatches(item, k) == Contains(ToLower(item.Text), k)

\* loops that walk the list from its oldest item
RECURSIVE memScanOldestFirst(_, _, _, _, _)
memScanOldestFirst(list, i, out, n, call) ==
    IF i < 1 \/ Len(out) >= n
    THEN out
    ELSE IF call.op = "Recent" \/ memMatches(list[Len(list) - i + 1], ToLower(call.text))
         THEN memScanOldestFirst(list, i - 1, Append(out, list[Len(list) - i + 1]), n, call)
         ELSE memScanOldestFirst(list, i - 1, out, n, call)

\* the loops of Recent and QueryByKeyword (store.go 86-92, 107-117): walk
\* list from index i down to 1, appending to out while len(out) < n; keep
\* says which items are taken
RECURSIVE memScan(_, _, _, _, _)
memScan(list, i, out, n, call) ==
    IF i < 1 \/ Len(out) >= n
    THEN out
    ELSE IF call.op = "Recent" \/ memMatches(list[i], ToLower(call.text))
         THEN memScan(list, i - 1, Append(out, list[i]), n, call)
         ELSE memScan(list, i - 1, out, n, call)

\* a reader that returns before taking the lock (store.go 79-81, 99-101)
memReturnsNil(call) ==
    \/ call.n <= 0
    \/ call.op = "QueryByKeyword" /\ call.text = <<>>

MemInit ==
    /\ \E lim \in MemLimits : limit = NewMemoryStore(lim)
    /\ short = <<>>
    /\ long = <<>>
    /\ mu = [writer |-> NoTask, readers |-> {}]
    /\ mpc = [t \in MemTasks |-> "idle"]
    /\ mcall = [t \in MemTasks |-> NoCall]
    /\ mout = [t \in MemReaders |-> <<>>]
    /\ mclock = 0
    /\ shortLog = <<>>

\* no store is in use
MemIdle ==
    /\ limit = defaultLimit
    /\ short = <<>>
    /\ long = <<>>
    /\ mu = [writer |-> NoTask, readers |-> {}]
    /\ mpc = [t \in MemTasks |-> "off"]
    /\ mcall = [t \in MemTasks |-> NoCall]
    /\ mout = [t \in MemReaders |-> <<>>]
    /\ mclock = 0
    /\ shortLog = <<>>

\* AddShort / AddLong: s.mu.Lock() (store.go 58, 70)
MemLock(t) ==
    /\ mpc[t] = "idle"
    /\ mclock + Cardinality({w \in MemWriters : mpc[w] = "locked"}) < MaxAdds
    /\ mu.writer = NoTask
    /\ mu.readers = {}
    /\ \E op \in {"AddShort", "AddLong"}, text \in MemTexts :
          mcall' = [mcall EXCEPT ![t] = [op |-> op, text |-> text, n |-> 0]]
    /\ mu' = [mu EXCEPT !.writer = t]
    /\ mpc' = [mpc EXCEPT ![t] = "locked"]
    /\ UNCHANGED <<limit, short, long, mout, mclock, shortLog, nonMemVars>>

\* the append of AddShort and AddLong (store.go 60-61, 72-73)
MemAppend(t) ==
    /\ mpc[t] = "locked"
    /\ IF mcall[t].op = "AddShort"
       THEN /\ short' = Append(short, MemoryItem("short", mcall[t].text, mclock))
            /\ shortLog' = Append(shortLog, MemoryItem("short", mcall[t].text, mclock))
            /\ UNCHANGED long
       ELSE /\ long' = Append(long, MemoryItem("long", mcall[t].text, mclock))
            /\ UNCHANGED <<short, shortLog>>
    /\ mclock' = mclock + 1
    /\ mpc' = [mpc EXCEPT ![t] = "appended"]
    /\ UNCHANGED <<limit, mu, mcall, mout, nonMemVars>>

\* the trim of AddShort and the deferred s.mu.Unlock() (store.go 59, 63-65, 71)
MemTrimUnlock(t) ==
    /\ mpc[t] = "appended"
    /\ short' = IF mcall[t].op = "AddShort" THEN trimShort(short, limit) ELSE short
    /\ mu' = [mu EXCEPT !.writer = NoTask]
    /\ mpc' = [mpc EXCEPT ![t] = "idle"]
    /\ mcall' = [mcall EXCEPT ![t] = NoCall]
    /\ UNCHANGED <<limit, long, mout, mclock, shortLog, nonMemVars>>

\* Recent(n) / QueryByKeyword(k, n): the early return, or s.mu.RLock()
\* (store.go 79-84, 99-105)
MemRLock(t) ==
    /\ mpc[t] = "idle"
    /\ \E op \in {"Recent", "QueryByKeyword"}, k \in MemKeywords, n \in MemCounts :
          LET call == [op |-> op, text |-> IF op = "Recent" THEN <<>> ELSE k, n |-> n]
          IN  /\ mcall' = [mcall EXCEPT ![t] = call]
              /\ mout' = [mout EXCEPT ![t] = <<>>]
              /\ IF memReturnsNil(call)
                 THEN /\ mpc' = [mpc EXCEPT ![t] = "returned"]
                      /\ UNCHANGED mu
                 ELSE /\ mu.writer = NoTask
                      /\ mu' = [mu EXCEPT !.readers = @ \cup {t}]
                      /\ mpc' = [mpc EXCEPT ![t] = "rlocked"]
    /\ UNCHANGED <<limit, short, long, mclock, shortLog, nonMemVars>>

\* the first loop: over short, newest first (store.go 86-88, 107-111)
MemReadShort(t) ==
    /\ mpc[t] = "rlocked"
    /\ mout' = [mout EXCEPT ![t] = memScan(short, Len(short), <<>>, mcall[t].n, mcall[t])]
    /\ mpc' = [mpc EXCEPT ![t] = "readShort"]
    /\ UNCHANGED <<limit, short, long, mu, mcall, mclock, shortLog, nonMemVars>>

\* the second loop: over long, newest first, and the deferred RUnlock
\* (store.go 84, 90-93, 113-118)
MemReadLong(t) ==
    /\ mpc[t] = "readShort"
    /\ mout' = [mout EXCEPT ![t] = memScan(long, Len(long), mout[t], mcall[t].n, mcall[t])]
    /\ mu' = [mu EXCEPT !.readers = @ \ {t}]
    /\ mpc' = [mpc EXCEPT ![t] = "returned"]
    /\ UNCHANGED <<limit, short, long, mcall, mclock, shortLog, nonMemVars>>

\* the caller takes the result and may call again
MemReturn(t) ==
    /\ mpc[t] = "returned"
    /\ mpc' = [mpc EXCEPT ![t] = "idle"]
    /\ mcall' = [mcall EXCEPT ![t] = NoCall]
    /\ mout' = [mout EXCEPT ![t] = <<>>]
    /\ UNCHANGED <<limit, short, long, mu, mclock, shortLog, nonMemVars>>

MemWrite == \E t \in MemWriters : MemLock(t) \/ MemAppend(t) \/ MemTrimUnlock(t)

MemRead == \E t \in MemReaders : MemRLock(t) \/ MemReadShort(t) \/ MemReadLong(t) \/ MemReturn(t)

MemNext == MemWrite \/ MemRead

(***************************************************************************)
(* memory.SimpleRanker (part_005 25-93).                                   *)
(***************************************************************************)
\* longest memories list given to Rank
MaxMems == 3

\* \w of Go's regexp: ASCII letters, digits and the underscore
isWordChar(c) ==
    \/ \E i \in 1..26 : UpperLetters[i] = c \/ LowerLetters[i] = c
    \/ IsDigit(c)
    \/ c = "_"

\* re.FindAllString(s, -1) for \w+, from position i on: the maximal runs of
\* word characters, left to right; acc is the run being read
RECURSIVE findAllWords(_, _, _)
findAllWords(s, i, acc) ==
    IF i > Len(s)
    THEN IF acc = <<>> THEN <<>> ELSE <<acc>>
    ELSE IF isWordChar(s[i])
         THEN findAllWords(s, i + 1, Append(acc, s[i]))
         ELSE (IF acc = <<>> THEN <<>> ELSE <<acc>>) \o findAllWords(s, i + 1, <<>>)

\* tokenize (part_005 25-36): the lowered words of length >= 2
tokenize(s) ==
    LET parts == findAllWords(s, 1, <<>>)
    IN  SelectSeq([i \in 1..Len(parts) |-> ToLower(parts[i])], LAMBDA w : Len(w) >= 2)

\* the score of an item (part_005 66-76): the query tokens found in the set
\* of the item's tokens, each counted as often as the query has it
simpleScore(qTokens, text) ==
    LET mTokens == tokenize(text)
        set == {mTokens[i] : i \in 1..Len(mTokens)}
    IN  Cardinality({k \in 1..Len(qTokens) : qTokens[k] \in set})

\* a comparison that puts the older of two items of equal score first
simpleLessOlderFirst(si, sj) ==
    IF si.score # sj.score THEN si.score > sj.score ELSE si.idx < sj.idx

\* the less function of sort.Slice (part_005 80-86)
simpleLess(si, sj) ==
    IF si.score # sj.score THEN si.score > sj.score ELSE si.idx > sj.idx

\* sort.Slice(scores, less): less is a strict total order here (the idx are
\* distinct), so the result is the one sorted sequence
sortScored(scores) ==
    LET n == Len(scores)
        before(i) == Cardinality({j \in 1..n : simpleLess(scores[j], scores[i])})
    IN  [p \in 1..n |-> scores[CHOOSE i \in 1..n : before(i) = p - 1]]

\* SimpleRanker.Rank (part_005 38-93)
SimpleRank(query, memories, top) ==
    LET n == Len(memories)
        t == IF top <= 0 \/ top > n THEN n ELSE top
        qTokens == tokenize(query)
        rev == [i \in 1..n |-> memories[n - i + 1]]
        scores == [i \in 1..n |->
                     [m |-> memories[i], score |-> simpleScore(qTokens, memories[i].Text),
                      idx |-> i - 1]]
        sorted == sortScored(scores)
    IN  IF qTokens = <<>>
        THEN SubSeq(rev, 1, t)
        ELSE [i \in 1..t |-> sorted[i].m]

\* the texts, queries, lists and tops given to the rankers
RankTexts == {<<"m", "k">>, <<"M", "K", "-", "e", "g", " ", "x">>, <<"e", "g", "g">>}

RankQueries == {<<"x", " ", "?">>, <<"m", "k">>, <<"E", "g", ",", "m", "k", " ", "M", "k">>}

RankItems ==
    {[Kind |-> "short", Text |-> t] : t \in RankTexts} \cup
    {[Kind |-> "long", Text |-> <<"m", "k">>]}

\* the lists of at most MaxMems items; an item's Timestamp is its place
RankMemories ==
    UNION {{[i \in 1..n |-> MemoryItem(l[i].Kind, l[i].Text, i)] : l \in [1..n -> RankItems]}
             : n \in 0..MaxMems}

RankTops == {0, 1, 2, MaxMems + 1}

(***************************************************************************)
(* memory.LLMMemoryRanker (service.go 193-381).  The provider's answer is  *)
(* an input: an error, tool calls with decoded arguments, and content.     *)
(***************************************************************************)
\* the pieces of s between its commas
RECURSIVE splitComma(_, _)
splitComma(s, acc) ==
    IF s = <<>> THEN <<acc>>
    ELSE IF Head(s) = "," THEN <<acc>> \o splitComma(Tail(s), <<>>)
         ELSE splitComma(Tail(s), Append(acc, Head(s)))

\* a JSON number that json.Unmarshal stores in an int: an optional minus
\* sign and digits, without a leading zero
isIntLiteral(lit) ==
    LET ds == IF lit # <<>> /\ lit[1] = "-" THEN Tail(lit) ELSE lit
    IN  /\ ds # <<>>
        /\ \A i \in 1..Len(ds) : IsDigit(ds[i])
        /\ Len(ds) > 1 => ds[1] # "0"

intLiteral(lit) == IF lit[1] = "-" THEN 0 - DecVal(Tail(lit)) ELSE DecVal(lit)

\* json.Unmarshal([]byte(s), &idxs) with idxs a []int: [ok, idxs].  null
\* leaves the slice nil without error; anything but an array of integers,
\* and anything after the array, is an error
jsonUnmarshalInts(s) ==
    LET b == TrimSpace(s)
        inner == SubSeq(b, 2, Len(b) - 1)
        parts == IF TrimSpace(inner) = <<>> THEN <<>> ELSE splitComma(inner, <<>>)
    IN  IF b = <<"n", "u", "l", "l">>
        THEN [ok |-> TRUE, idxs |-> <<>>]
        ELSE IF /\ Len(b) >= 2
                /\ b[1] = "["
                /\ b[Len(b)] = "]"
                /\ \A i \in 1..Len(parts) : isIntLiteral(TrimSpace(parts[i]))
             THEN [ok |-> TRUE,
                   idxs |-> [i \in 1..Len(parts) |-> intLiteral(TrimSpace(parts[i]))]]
             ELSE [ok |-> FALSE, idxs |-> <<>>]

\* parseIndicesFromText (service.go 338-347): from the first "[" to the last
\* "]" of s
parseIndicesFromText(s) ==
    LET open == {i \in 1..Len(s) : s[i] = "["}
        close == {i \in 1..Len(s) : s[i] = "]"}
        start == CHOOSE i \in open : \A j \in open : i <= j
        end == CHOOSE i \in close : \A j \in close : i >= j
    IN  IF open = {} \/ close = {} \/ start >= end
        THEN [ok |-> FALSE, idxs |-> <<>>]
        ELSE jsonUnmarshalInts(SubSeq(s, start, end))

\* int(f) of a float64 given in tenths: truncation towards zero
intOfFloat(tenths) == IF tenths >= 0 THEN tenths \div 10 ELSE 0 - ((0 - tenths) \div 10)

\* the int of a decoded number; a float64's value is kept in tenths
intOfNumber(x) == IF x.t = "float64" THEN intOfFloat(x.v) ELSE x.v

\* parseIndicesFromArgs (service.go 350-381) on v = [type, elems]: a []int, a
\* []float64, a []interface{} whose non-numeric elements are ignored, or
\* some other value
parseIndicesFromArgs(v) ==
    LET nums == SelectSeq(v.elems, LAMBDA x : x.t \in {"float64", "int", "int64"})
        ints == [i \in 1..Len(nums) |-> intOfNumber(nums[i])]
    IN  IF v.type \in {"[]int", "[]float64"}
        THEN [ok |-> TRUE, idxs |-> ints]
        ELSE IF v.type = "[]interface{}" /\ ints # <<>>
             THEN [ok |-> TRUE, idxs |-> ints]
             ELSE [ok |-> FALSE, idxs |-> <<>>]

\* a selection that takes an index as often as it is given
RECURSIVE pickIndicesRepeating(_, _, _, _)
pickIndicesRepeating(idxs, memories, top, out) ==
    IF idxs = <<>> \/ Len(out) >= top
    THEN out
    ELSE IF Head(idxs) < 0 \/ Head(idxs) >= Len(memories)
         THEN pickIndicesRepeating(Tail(idxs), memories, top, out)
         ELSE pickIndicesRepeating(Tail(idxs), memories, top,
                                   Append(out, memories[Head(idxs) + 1]))

\* the selection loop (service.go 248-262, 299-313): the memories at the
\* indices, in order, without those out of range or seen before, until top
\* are taken; seen is the set of the places of out
RECURSIVE pickIndices(_, _, _, _)
pickIndices(idxs, memories, top, out) ==
    IF idxs = <<>> \/ Len(out) >= top
    THEN out
    ELSE IF \/ Head(idxs) < 0
            \/ Head(idxs) >= Len(memories)
            \/ \E p \in 1..Len(out) : out[p].Timestamp = Head(idxs) + 1
         THEN pickIndices(Tail(idxs), memories, top, out)
         ELSE pickIndices(Tail(idxs), memories, top, Append(out, memories[Head(idxs) + 1]))

\* the padding loop (service.go 264-281, 315-333): the items of fallback,
\* in order, that have not the Text and Kind of an item of out, until out
\* has top items
RECURSIVE padFromFallback(_, _, _)
padFromFallback(out, fallback, top) ==
    IF fallback = <<>> \/ Len(out) >= top
    THEN out
    ELSE IF \E p \in 1..Len(out) :
               out[p].Text = Head(fallback).Text /\ out[p].Kind = Head(fallback).Kind
         THEN padFromFallback(out, Tail(fallback), top)
         ELSE padFromFallback(Append(out, Head(fallback)), Tail(fallback), top)

\* the result built from an index list
rankByIndices(idxs, query, memories, top) ==
    padFromFallback(pickIndices(idxs, memories, top, <<>>),
                    SimpleRank(query, memories, Len(memories)), top)

\* the tool calls that give an index list (service.go 241-247): named
\* rank_memories, with an "indices" argument that parses
usableToolCalls(answer) ==
    {i \in 1..Len(answer.ToolCalls) :
       /\ answer.ToolCalls[i].Name = "rank_memories"
       /\ answer.ToolCalls[i].hasIndices
       /\ parseIndicesFromArgs(answer.ToolCalls[i].indices).ok}

\* LLMMemoryRanker.Rank (service.go 193-335), answer being what the provider
\* returns
LLMRank(query, memories, top, answer) ==
    LET usable == IF answer.HasToolCalls THEN usableToolCalls(answer) ELSE {}
        first == CHOOSE i \in usable : \A j \in usable : i <= j
        strict == jsonUnmarshalInts(TrimSpace(answer.Content))
        loose == parseIndicesFromText(TrimSpace(answer.Content))
    IN  IF memories = <<>> \/ top <= 0
        THEN <<>>
        ELSE IF ~answer.hasProvider \/ answer.err
        THEN SimpleRank(query, memories, top)
        ELSE IF usable # {}
        THEN rankByIndices(parseIndicesFromArgs(answer.ToolCalls[first].indices).idxs,
                           query, memories, top)
        ELSE IF strict.ok
        THEN rankByIndices(strict.idxs, query, memories, top)
        ELSE IF loose.ok
        THEN rankByIndices(loose.idxs, query, memories, top)
        ELSE SimpleRank(query, memories, top)

Num(t, v) == [t |-> t, v |-> v]

NoIndices == [type |-> "none", elems |-> <<>>]

RankToolCall(name, hasIndices, indices) ==
    [Name |-> name, hasIndices |-> hasIndices, indices |-> indices]

\* the "indices" arguments of the tool calls
RankIndices ==
    {[type |-> "[]int", elems |-> <<Num("int", 1), Num("int", 0)>>],
     [type |-> "[]int", elems |-> <<Num("int", 2), Num("int", 2), Num("int", 5),
                                    Num("int", -1), Num("int", 0)>>],
     [type |-> "[]float64", elems |-> <<Num("float64", 19), Num("float64", -5)>>],
     [type |-> "[]interface{}", elems |-> <<Num("string", 0), Num("float64", 10),
                                            Num("int64", 0)>>],
     [type |-> "[]interface{}", elems |-> <<Num("string", 0)>>],
     [type |-> "string", elems |-> <<>>]}

\* the lists of tool calls of a response
RankToolCalls ==
    {<<RankToolCall("rank_memories", TRUE, v)>> : v \in RankIndices} \cup
    {<<RankToolCall("rank_memories", FALSE, NoIndices)>>,
     <<RankToolCall("other", TRUE, [type |-> "[]int", elems |-> <<Num("int", 0)>>]),
       RankToolCall("rank_memories", TRUE,
                    [type |-> "[]int", elems |-> <<Num("int", 1)>>])>>}

\* the contents of a response: "[1,0]", "R: [1,0]", "[0,1] [x]",
\* " [ 2 , 2,0 ] ", "[7,-1,1]", "[]", "null", "[1,x]", "[1.5]", "][", "no", ""
RankContents ==
    {<<"[", "1", ",", "0", "]">>,
     <<"R", ":", " ", "[", "1", ",", "0", "]">>,
     <<"[", "0", ",", "1", "]", " ", "[", "x", "]">>,
     <<" ", "[", " ", "2", " ", ",", " ", "2", ",", "0", " ", "]", " ">>,
     <<"[", "7", ",", "-", "1", ",", "1", "]">>,
     <<"[", "]">>,
     <<"n", "u", "l", "l">>,
     <<"[", "1", ",", "x", "]">>,
     <<"[", "1", ".", "5", "]">>,
     <<"]", "[">>,
     <<"n", "o">>,
     <<>>}

Response(hasProvider, failed, has, calls, content) ==
    [hasProvider |-> hasProvider, err |-> failed, HasToolCalls |-> has,
     ToolCalls |-> calls, Content |-> content]

NoResponse == Response(FALSE, FALSE, FALSE, <<>>, <<>>)

\* what the provider answers: nothing (no provider), an error, content
\* alone, tool calls alone or beside the content "[0,1]"
RankResponses ==
    {NoResponse, Response(TRUE, TRUE, FALSE, <<>>, <<>>)} \cup
    {Response(TRUE, FALSE, FALSE, <<>>, c) : c \in RankContents} \cup
    {Response(TRUE, FALSE, TRUE, tc, c) : tc \in RankToolCalls, c \in {<<>>, <<"[", "0", ",", "1", "]">>}}

RankInit ==
    /\ rkpc = "called"
    /\ rkQuery \in RankQueries
    /\ rkMems \in RankMemories
    /\ rkTop \in RankTops
    /\ rkResp \in RankResponses
    /\ rkOut = <<>>

\* no ranker is in use
RankIdle ==
    /\ rkpc = "off"
    /\ rkQuery = <<>>
    /\ rkMems = <<>>
    /\ rkTop = 0
    /\ rkResp = NoResponse
    /\ rkOut = <<>>

\* the call is SimpleRanker.Rank(query, memories, top)
RankSimple ==
    /\ rkpc = "called"
    /\ rkResp = NoResponse
    /\ rkOut' = SimpleRank(rkQuery, rkMems, rkTop)
    /\ rkpc' = "simple"
    /\ UNCHANGED <<rkQuery, rkMems, rkTop, rkResp, nonRankVars>>

\* the call is LLMMemoryRanker.Rank(query, memories, top)
RankLLM ==
    /\ rkpc = "called"
    /\ rkOut' = LLMRank(rkQuery, rkMems, rkTop, rkResp)
    /\ rkpc' = "llm"
    /\ UNCHANGED <<rkQuery, rkMems, rkTop, rkResp, nonRankVars>>

RankNext == RankSimple \/ RankLLM

(***************************************************************************)
(* providers.NewProviderFromConfig. A string of the config is the sequence *)
(* of its characters; a provider section is a pointer: nil, or a section   *)
(* with its APIKey.                                                        *)
(***************************************************************************)
NoProvider == "none"

\* cfg.Providers.OpenAI and cfg.Providers.Anthropic: a *ProviderConfig
ProviderConfig(isNil, key) == [isNil |-> isNil, APIKey |-> key]

ProviderSections ==
    {ProviderConfig(TRUE, <<>>), ProviderConfig(FALSE, <<>>),
     ProviderConfig(FALSE, <<"s", "k">>)}

claudePrefix == <<"c", "l", "a", "u", "d", "e", "-">>

\* cfg.Agents.Defaults.Model: a Claude model, the bare prefix, claude
\* without the dash, the prefix inside the name, another model, no model
FactoryModels ==
    {claudePrefix \o <<"3">>, claudePrefix, <<"c", "l", "a", "u", "d", "e">>,
     <<"x">> \o claudePrefix, <<"g", "p", "t">>, <<>>}

Config(model, anthropic, openai) ==
    [Model |-> model, Anthropic |-> anthropic, OpenAI |-> openai]

\* the test both copies make of a section: non-nil and APIKey != ""
hasKey(section) == ~section.isNil /\ section.APIKey # <<>>

\* the copy of factory.go that knows the Anthropic provider
NewProviderFromConfigFull(cfg) ==
    IF HasPrefix(cfg.Model, claudePrefix) /\ hasKey(cfg.Anthropic) THEN "anthropic"
    ELSE IF hasKey(cfg.OpenAI) THEN "openai"
    ELSE IF hasKey(cfg.Anthropic) THEN "anthropic"
    ELSE "stub"

\* the copy with the rules v0: OpenAI when its key is present, else the stub
NewProviderFromConfigV0(cfg) ==
    IF hasKey(cfg.OpenAI) THEN "openai" ELSE "stub"

NewProviderFromConfig(v, cfg) ==
    IF v = 1 THEN NewProviderFromConfigFull(cfg) ELSE NewProviderFromConfigV0(cfg)

FactoryInit ==
    /\ fvariant \in {1, 2}
    /\ fpc = "called"
    /\ fcfg \in {Config(m, a, o) : m \in FactoryModels,
                                  a \in ProviderSections, o \in ProviderSections}
    /\ fprov = NoProvider

FactoryIdle ==
    /\ fvariant = 1
    /\ fpc = "off"
    /\ fcfg = Config(<<>>, ProviderConfig(TRUE, <<>>), ProviderConfig(TRUE, <<>>))
    /\ fprov = NoProvider

\* the call NewProviderFromConfig(cfg) returns
FactoryCall ==
    /\ fpc = "called"
    /\ fprov' = NewProviderFromConfig(fvariant, fcfg)
    /\ fpc' = "done"
    /\ UNCHANGED <<fvariant, fcfg, nonFactoryVars>>

FactoryNext == FactoryCall

(***************************************************************************)
(* agent.ContextBuilder.BuildMessages and the request conversion of        *)
(* providers.AnthropicProvider.Chat. A string is the sequence of its       *)
(* characters; the fixed texts of the prompt are cut to a letter each.     *)
(* The arguments of a tool call (a JSON object copied as it is) are left   *)
(* out.                                                                    *)
(***************************************************************************)
MaxHistory == 2

MaxToolRounds == 2

\* providers.Message
Message(role, content, toolCallID, toolCalls) ==
    [Role |-> role, Content |-> content, ToolCallID |-> toolCallID, ToolCalls |-> toolCalls]

\* providers.ToolCall
UnifiedToolCall(id, name) == [ID |-> id, Name |-> name]

SystemMessage(content) == Message("system", content, <<>>, <<>>)

UserMessage(content) == Message("user", content, <<>>, <<>>)

MasterInstruction == <<"M">>

bootstrapFiles == <<<<"S">>, <<"A">>, <<"U">>, <<"T">>>>

\* a bootstrap file as os.ReadFile finds it: unreadable, or its data
WireFile(readable, data) == [readable |-> readable, data |-> data]

\* the system messages of the bootstrap files that can be read and are not
\* blank, in the order of bootstrapFiles; files[i] is the file bootstrapFiles[i]
RECURSIVE bootstrapMessages(_, _)
bootstrapMessages(i, files) ==
    IF i > Len(bootstrapFiles) THEN <<>>
    ELSE (IF files[i].readable /\ TrimSpace(files[i].data) # <<>>
          THEN <<SystemMessage(<<"#">> \o bootstrapFiles[i] \o TrimSpace(files[i].data))>>
          ELSE <<>>)
         \o bootstrapMessages(i + 1, files)

\* a replay of the history that keeps its empty entries
historyMessagesKeepingEmpty(history) ==
    [i \in 1..Len(history) |-> UserMessage(history[i])]

\* the user messages of the history entries that are not empty
RECURSIVE historyMessages(_)
historyMessages(history) ==
    IF history = <<>> THEN <<>>
    ELSE (IF Len(Head(history)) > 0 THEN <<UserMessage(Head(history))>> ELSE <<>>)
         \o historyMessages(Tail(history))

\* selected after lines 100-103: memories, or what the ranker makes of
\* them when there is a ranker and a memory; hasMemories: whether memories
\* has an item; ranker: "nil", or whether Rank returns "some" or "none"
hasSelected(hasMemories, ranker) == hasMemories /\ ranker # "none"

\* files: the bootstrap files of the workspace; skills: whether a skill is
\* loaded
BuildMessages(history, currentMessage, files, skills, memoryContext, hasMemories, ranker) ==
    <<SystemMessage(MasterInstruction)>>
    \o bootstrapMessages(1, files)
    \o <<SystemMessage(<<"C">>), SystemMessage(<<"W">>)>>
    \o (IF skills THEN <<SystemMessage(<<"K">>)>> ELSE <<>>)
    \o (IF memoryContext # <<>> THEN <<SystemMessage(<<"m">> \o memoryContext)>> ELSE <<>>)
    \o (IF hasSelected(hasMemories, ranker) THEN <<SystemMessage(<<"R">>)>> ELSE <<>>)
    \o historyMessages(history)
    \o <<UserMessage(currentMessage)>>

\* anthropicBlock: the fields a type does not use keep their zero value
anthropicBlock(type, text, id, name, toolUseID, content) ==
    [Type |-> type, Text |-> text, ID |-> id, Name |-> name,
     ToolUseID |-> toolUseID, Content |-> content]

anthropicMessage(role, blocks) == [Role |-> role, Content |-> blocks]

toolUseBlocks(toolCalls) ==
    [k \in 1..Len(toolCalls) |->
        anthropicBlock("tool_use", <<>>, toolCalls[k].ID, toolCalls[k].Name, <<>>, <<>>)]

\* a tool result sent as a plain text of the user
toolResultAsText(m) ==
    anthropicMessage("user", <<anthropicBlock("text", m.Content, <<>>, <<>>, <<>>, <<>>)>>)

\* a message of role tool
toolResultMessage(m) ==
    anthropicMessage("user",
        <<anthropicBlock("tool_result", <<>>, <<>>, <<>>, m.ToolCallID, m.Content)>>)

\* a message of any role but system and tool
blocksMessage(m) ==
    anthropicMessage(m.Role,
        (IF m.Content # <<>>
         THEN <<anthropicBlock("text", m.Content, <<>>, <<>>, <<>>, <<>>)>> ELSE <<>>)
        \o toolUseBlocks(m.ToolCalls))

\* the loop over messages, from message i on
RECURSIVE convertMessages(_, _, _, _)
convertMessages(messages, i, systemPrompt, anthropicMsgs) ==
    IF i > Len(messages)
    THEN [Messages |-> anthropicMsgs, System |-> systemPrompt]
    ELSE LET m == messages[i] IN
         IF m.Role = "system"
         THEN convertMessages(messages, i + 1, m.Content, anthropicMsgs)
         ELSE IF m.Role = "tool"
         THEN convertMessages(messages, i + 1, systemPrompt,
                              Append(anthropicMsgs, toolResultMessage(m)))
         ELSE convertMessages(messages, i + 1, systemPrompt,
                              Append(anthropicMsgs, blocksMessage(m)))

\* reqBody, without the model, the tools and max_tokens
anthropicRequest(messages) == convertMessages(messages, 1, <<>>, <<>>)

NoRequest == [Messages |-> <<>>, System |-> <<>>]

\* what an iteration of the agent loop appends: the assistant message with
\* its tool calls, then one tool message per call, in the order of the calls
roundDigits == <<"1", "2", "3", "4">>

toolCallID(round, k) == <<"t", roundDigits[round], roundDigits[k]>>

RoundCalls(round, names) ==
    [k \in 1..Len(names) |-> UnifiedToolCall(toolCallID(round, k), names[k])]

ToolRound(round, content, names) ==
    <<Message("assistant", content, <<>>, RoundCalls(round, names))>>
    \o [k \in 1..Len(names) |->
          Message("tool", <<"o", "k">>, toolCallID(round, k), <<>>)]

\* the shapes of an iteration: one call without text, two calls after a text
RoundShapes ==
    {[content |-> <<>>, names |-> <<"exec">>],
     [content |-> <<"h", "m">>, names |-> <<"web", "exec">>]}

RECURSIVE WireTails(_)
WireTails(round) ==
    {<<>>} \cup
    (IF round > MaxToolRounds THEN {}
     ELSE {ToolRound(round, sh.content, sh.names) \o rest :
              sh \in RoundShapes, rest \in WireTails(round + 1)})

NoFile == WireFile(FALSE, <<>>)

\* workspaces: no file; SOUL.md alone; a blank SOUL.md, AGENTS.md and a
\* TOOLS.md with white space around its text
WireWorkspaces ==
    {<<NoFile, NoFile, NoFile, NoFile>>,
     <<WireFile(TRUE, <<"s">>), NoFile, NoFile, NoFile>>,
     <<WireFile(TRUE, <<" ", "\n">>), WireFile(TRUE, <<"a">>), NoFile,
       WireFile(TRUE, <<" ", "t", "\n">>)>>}

RECURSIVE WireHistories(_)
WireHistories(n) ==
    IF n = 0 THEN {<<>>}
    ELSE WireHistories(n - 1) \cup
         {Append(h, e) : h \in WireHistories(n - 1), e \in {<<"q">>, <<>>}}

BuildInput(history, currentMessage, files, skills, memoryContext, hasMemories, ranker) ==
    [history |-> history, currentMessage |-> currentMessage, files |-> files,
     skills |-> skills, memoryContext |-> memoryContext,
     hasMemories |-> hasMemories, ranker |-> ranker]

WireInputs ==
    {BuildInput(h, c, f, k, mc, hm, rk) :
        h \in WireHistories(MaxHistory), c \in {<<>>, <<"h", "i">>},
        f \in WireWorkspaces, k \in BOOLEAN, mc \in {<<>>, <<"n">>},
        hm \in BOOLEAN, rk \in {"nil", "none"}}

\* what doWithRetry returns to Chat: an error, or a response with its status
\* and its body: not JSON, an error object, or the content blocks
WireResponse(failed, status, body, blocks) ==
    [failed |-> failed, status |-> status, body |-> body, blocks |-> blocks]

NoWire == WireResponse(FALSE, 0, "none", <<>>)

\* a block of the response: its type, and its text or its id and name
textBlock(text) == anthropicBlock("text", text, <<>>, <<>>, <<>>, <<>>)

toolUseBlock(id, name) == anthropicBlock("tool_use", <<>>, id, name, <<>>, <<>>)

WireBlockLists ==
    {<<>>,
     <<textBlock(<<"a">>)>>,
     <<textBlock(<<" ", "a">>), textBlock(<<"b", "\n">>)>>,
     <<textBlock(<<" ">>), toolUseBlock(<<"u", "1">>, "exec")>>,
     <<toolUseBlock(<<"u", "1">>, "exec"), textBlock(<<"a", " ">>),
       toolUseBlock(<<"u", "2">>, "web"), textBlock(<<"b">>)>>,
     <<anthropicBlock("thinking", <<"t">>, <<>>, <<>>, <<>>, <<>>),
       toolUseBlock(<<"u", "1">>, "exec"), toolUseBlock(<<"u", "1">>, "exec")>>}

WireStatuses == {199, 200, 204, 299, 300, 400, 429, 500}

WireResponses ==
    {WireResponse(TRUE, 0, "none", <<>>)}
    \cup {WireResponse(FALSE, st, "content", <<textBlock(<<"a">>)>>) : st \in WireStatuses}
    \cup {WireResponse(FALSE, 200, "garbage", <<>>)}
    \cup {WireResponse(FALSE, 200, "error", l) : l \in {<<>>, <<textBlock(<<"a">>)>>}}
    \cup {WireResponse(FALSE, 200, "content", l) : l \in WireBlockLists}

\* LLMResponse and the error returned beside it ("nil" when there is none)
LLMResponse(content, hasToolCalls, toolCalls, error) ==
    [Content |-> content, HasToolCalls |-> hasToolCalls, ToolCalls |-> toolCalls,
     err |-> error]

ChatError(error) == LLMResponse(<<>>, FALSE, <<>>, error)

NoOutput == ChatError("pending")

\* finalContent when only the first text block is written
finalContentFirstText(blocks, i) ==
    IF \E k \in 1..Len(blocks) : blocks[k].Type = "text"
    THEN blocks[CHOOSE k \in 1..Len(blocks) :
                   /\ blocks[k].Type = "text"
                   /\ \A h \in 1..(k - 1) : blocks[h].Type # "text"].Text
    ELSE <<>>

\* finalContent after the loop over the blocks, from block i on
RECURSIVE finalContent(_, _)
finalContent(blocks, i) ==
    IF i > Len(blocks) THEN <<>>
    ELSE (IF blocks[i].Type = "text" THEN blocks[i].Text ELSE <<>>)
         \o finalContent(blocks, i + 1)

\* tcs after the loop over the blocks, from block i on
RECURSIVE liftToolCalls(_, _)
liftToolCalls(blocks, i) ==
    IF i > Len(blocks) THEN <<>>
    ELSE (IF blocks[i].Type = "tool_use"
          THEN <<UnifiedToolCall(blocks[i].ID, blocks[i].Name)>> ELSE <<>>)
         \o liftToolCalls(blocks, i + 1)

\* hasToolCalls after the loop over the blocks
hasToolUse(blocks) == \E k \in 1..Len(blocks) : blocks[k].Type = "tool_use"

\* Chat from the return of doWithRetry on
anthropicResult(w) ==
    IF w.failed THEN ChatError("transport")
    ELSE IF w.status < 200 \/ w.status >= 300 THEN ChatError("status")
    ELSE IF w.body = "garbage" THEN ChatError("decode")
    ELSE IF w.body = "error" THEN ChatError("api")
    ELSE LLMResponse(TrimSpace(finalContent(w.blocks, 1)), hasToolUse(w.blocks),
                     liftToolCalls(w.blocks, 1), "nil")

WireInit ==
    /\ apc = "new"
    /\ cbIn \in WireInputs
    /\ amsgs = <<>>
    /\ areq = NoRequest
    /\ awire = NoWire
    /\ aout = NoOutput

WireIdle ==
    /\ apc = "off"
    /\ cbIn = "off"
    /\ amsgs = <<>>
    /\ areq = NoRequest
    /\ awire = NoWire
    /\ aout = NoOutput

\* the loop builds the prompt of the turn
BuildPrompt ==
    /\ apc = "new"
    /\ amsgs' = BuildMessages(cbIn.history, cbIn.currentMessage, cbIn.files, cbIn.skills,
                              cbIn.memoryContext, cbIn.hasMemories, cbIn.ranker)
    /\ apc' = "prompt"
    /\ UNCHANGED <<areq, awire, aout, cbIn, nonWireVars>>

\* the iterations of the loop so far have appended their messages, and the
\* provider is called
LoopRounds ==
    /\ apc = "prompt"
    /\ \E t \in WireTails(1) : amsgs' = amsgs \o t
    /\ apc' = "called"
    /\ UNCHANGED <<areq, awire, aout, cbIn, nonWireVars>>

\* Chat builds reqBody from messages
AnthropicChat ==
    /\ apc = "called"
    /\ areq' = anthropicRequest(amsgs)
    /\ apc' = "built"
    /\ UNCHANGED <<amsgs, awire, aout, cbIn, nonWireVars>>

\* doWithRetry returns and Chat returns what it makes of the response
AnthropicReturn ==
    /\ apc = "built"
    /\ \E w \in WireResponses :
          /\ awire' = w
          /\ aout' = anthropicResult(w)
    /\ apc' = "returned"
    /\ UNCHANGED <<amsgs, areq, cbIn, nonWireVars>>

WireNext == BuildPrompt \/ LoopRounds \/ AnthropicChat \/ AnthropicReturn

(***************************************************************************)
(* tools.WebTool.Execute. A URL is the sequence of its characters.         *)
(***************************************************************************)
\* args["url"]: missing, of another type, or a string
WebArg(type, text) == [type |-> type, text |-> text]

WebSchemes == {<<"h", "t", "t", "p", ":", "/", "/">>, <<"H", "T", "T", "P", "S", ":", "/", "/">>, <<>>}

WebHosts ==
    {<<"e", "x", "a", "m", "p", "l", "e", ".", "c", "o", "m">>,
     <<"l", "o", "c", "a", "l", "h", "o", "s", "t">>,
     <<"L", "o", "c", "a", "l", "H", "o", "s", "t">>,
     <<"1", "2", "7", ".", "0", ".", "0", ".", "1">>,
     <<"1", "2", "7", ".", "0", ".", "0", ".", "2">>,
     <<"[", ":", ":", "1", "]">>,
     <<"1", "0", ".", "0", ".", "0", ".", "5">>,
     <<"a", "1", "0", ".", "b">>,
     <<"1", "9", "2", ".", "1", "6", "8", ".", "1", ".", "1">>,
     <<"1", "9", "2", ".", "1", "6", "9", ".", "1", ".", "1">>,
     <<"1", "7", "2", ".", "1", "6", ".", "0", ".", "9">>,
     <<"1", "7", "2", ".", "1", "7", ".", "0", ".", "9">>,
     <<"1", "6", "9", ".", "2", "5", "4", ".", "1", "6", "9", ".", "2", "5", "4">>,
     <<"1", ".", "2", ".", "3", ".", "4">>}

WebPaths == {<<>>, <<"/", "p", "?", "u", "=", "L", "O", "C", "A", "L", "H", "O", "S", "T">>, <<"/", "v", "1", "0", ".", "2">>}

WebArgs ==
    {WebArg("missing", <<>>), WebArg("number", <<>>), WebArg("string", <<>>)}
    \cup {WebArg("string", sc \o h \o pa) :
             sc \in WebSchemes, h \in WebHosts, pa \in WebPaths}

\* the texts the SSRF protection looks for
ssrfPatterns ==
    {<<"l", "o", "c", "a", "l", "h", "o", "s", "t">>,
     <<"1", "2", "7", ".", "0", ".", "0", ".", "1">>,
     <<":", ":", "1">>,
     <<"1", "0", ".">>,
     <<"1", "9", "2", ".", "1", "6", "8", ".">>,
     <<"1", "7", "2", ".", "1", "6", ".">>,
     <<"1", "6", "9", ".", "2", "5", "4", ".">>}

\* a protection that compares the URL as it is written
ssrfBlockedCaseSensitive(uStr) == \E pat \in ssrfPatterns : Contains(uStr, pat)

\* lower := strings.ToLower(uStr); strings.Contains(lower, ...) || ...
ssrfBlocked(uStr) == \E pat \in ssrfPatterns : Contains(ToLower(uStr), pat)

WebCall(pc, arg, res, error, requests) ==
    [pc |-> pc, arg |-> arg, res |-> res, err |-> error, requests |-> requests]

WebInit == web \in {WebCall("received", a, "", "", 0) : a \in WebArgs}

WebIdle == web = "off"

\* uStr, ok := args["url"].(string) and the SSRF protection
WebCheck ==
    /\ web.pc = "received"
    /\ web' = IF web.arg.type # "string" \/ web.arg.text = <<>>
              THEN [web EXCEPT !.pc = "done", !.err = "web: 'url' argument required"]
              ELSE IF ssrfBlocked(web.arg.text)
              THEN [web EXCEPT !.pc = "done",
                               !.err = "web: access to local or private network addresses is disallowed"]
              ELSE [web EXCEPT !.pc = "checked"]
    /\ UNCHANGED nonWebVars

\* http.NewRequestWithContext fails on the URL, or http.DefaultClient.Do
\* issues the request: it fails, or the body is read and returned
WebFetch ==
    /\ web.pc = "checked"
    /\ \E how \in {"bad url", "failed", "body"} :
          web' = [web EXCEPT !.pc = "done",
                             !.requests = IF how = "bad url" THEN @ ELSE @ + 1,
                             !.res = IF how = "body" THEN "body" ELSE "",
                             !.err = IF how = "body" THEN "" ELSE how]
    /\ UNCHANGED nonWebVars

WebNext == WebCheck \/ WebFetch

(***************************************************************************)
(* The Telegram adapter (StartTelegramWithBase): its inbound poller and    *)
(* its outbound sender, with the tasks that share the Hub and the root     *)
(* context with them: the Heartbeat ticker, the agent loop as the reader   *)
(* of Hub.In, the publisher of Hub.Out and the sender of another channel.  *)
(* The last three are not among the source files and follow the            *)
(* specification (sections 4.1 and 6).  A text is the sequence of its      *)
(* characters; the sender's limit of 4096 characters is scaled down to     *)
(* the lengths of the texts of the model.                                  *)
(***************************************************************************)
\* getUpdates results handled in all
MaxUpdates == 2

\* Outbounds published in all
MaxOutbound == 2

\* length of the longest Outbound content
MaxText == 3

\* the largest limit given to splitMessage
MaxLen == 3

\* lastIndexByte: the index from 0 of the last c in s, or -1
RECURSIVE lastIndexByteFrom(_, _, _)
lastIndexByteFrom(s, c, i) ==
    IF i < 0 THEN -1
    ELSE IF s[i + 1] = c THEN i
    ELSE lastIndexByteFrom(s, c, i - 1)

lastIndexByte(s, c) == lastIndexByteFrom(s, c, Len(s) - 1)

\* a cut that leaves the newline to the next chunk
cutPointBeforeNewline(idx, maxLen) == IF idx > 0 THEN idx ELSE maxLen

\* cut := maxLen; if idx > 0 { cut = idx + 1 }
cutPoint(idx, maxLen) == IF idx > 0 THEN idx + 1 ELSE maxLen

\* the loop for len(text) > 0 of splitMessage
RECURSIVE splitLoop(_, _, _)
splitLoop(text, maxLen, chunks) ==
    IF Len(text) = 0 THEN chunks
    ELSE IF Len(text) <= maxLen THEN Append(chunks, text)
    ELSE LET cut == cutPoint(lastIndexByte(SubSeq(text, 1, maxLen), "\n"), maxLen)
         IN  splitLoop(SubSeq(text, cut + 1, Len(text)), maxLen,
                       Append(chunks, SubSeq(text, 1, cut)))

splitMessage(text, maxLen) ==
    IF Len(text) <= maxLen THEN <<text>> ELSE splitLoop(text, maxLen, <<>>)

\* the texts of at most n characters, of letters and newlines
RECURSIVE TgTexts(_)
TgTexts(n) ==
    IF n = 0 THEN {<<>>}
    ELSE TgTexts(n - 1) \cup
         {Append(t, c) : t \in {u \in TgTexts(n - 1) : Len(u) = n - 1}, c \in {"a", "\n"}}

\* an update of getUpdates: its update_id, whether it has a message, and
\* the sender of the message, "" when the message has no From
Update(id, hasMessage, from) == [id |-> id, hasMessage |-> hasMessage, from |-> from]

TgFroms == {"u1", "u2", ""}

\* the results getUpdates may give from update_id id on: none (also a failed
\* or undecodable answer), one update, or two
TgResults(id) ==
    {<<>>}
    \cup {<<Update(id, TRUE, f)>> : f \in TgFroms}
    \cup {<<Update(id, FALSE, "")>>}
    \cup {<<Update(id, TRUE, f), Update(id + 1, TRUE, "u1")>> : f \in {"u1", "u2"}}

\* a poller that takes an empty allow_from as open to all
tgAllowedOpenWhenEmpty(allowed, fromID) == allowed = {} \/ fromID \in allowed

\* the two tests on allowed (part_001 102-109): false when the message is dropped
tgAllowed(allowed, fromID) == allowed # {} /\ fromID \in allowed

NoOutbound == Outbound("", "", <<>>)

\* the scenarios: updates arrive and nothing is published, or Outbounds are
\* published and no update arrives (the poller and the sender share the
\* root context only)
TgUpdatesOnly == [updates |-> MaxUpdates, outbound |-> 0]

TgOutboundsOnly == [updates |-> 0, outbound |-> MaxOutbound]

TgState(budget, maxLen) ==
    [cancelled |-> FALSE,          \* the root context is cancelled
     updatesLeft |-> budget.updates, \* updates the server has still to give
     ipc |-> "top",                \* the poller: top, updates, send, stopped
     offset |-> 0,                 \* the variable offset
     result |-> <<>>,              \* the updates of gu.Result not yet handled
     handled |-> {},               \* history: the messages handled, with
                                   \* their sender and whether they were kept
     entered |-> {},               \* history: update_ids put on Hub.In
     pubLeft |-> budget.outbound,  \* Outbounds still to be published
     published |-> 0,              \* history: Outbounds put on Hub.Out
     sendLimit |-> maxLen,         \* the maxLen given to splitMessage
     opc |-> "select",             \* the sender: select, chunks, stopped
     out |-> NoOutbound,           \* the variable out
     chunks |-> <<>>,              \* the variable chunks
     next |-> 0,                   \* the place of the next chunk
     taken |-> 0,                  \* history: Telegram Outbounds taken
     posts |-> <<>>,               \* history: the sendMessage calls made
                                   \* for out
     discarded |-> 0,              \* history: Outbounds of other channels
                                   \* the Telegram sender took
     cpc |-> "run",                \* the sender of channel cli
     delivered |-> 0,              \* history: Outbounds it delivered
     hpc |-> "run"]                \* the Heartbeat ticker

TgInit ==
    /\ \/ /\ tg = TgState(TgUpdatesOnly, MaxLen)
          /\ hubCap \in {1, HubCap}
          /\ hbFile = HeartbeatTasks
          /\ allowFrom \in {{}, {"u1"}, {"u1", "u2"}}
       \/ /\ tg \in {TgState(TgOutboundsOnly, n) : n \in 1..MaxLen}
          /\ hubCap = 1
          /\ hbFile = HeartbeatFile(FALSE, <<>>)
          /\ allowFrom = {"u1"}
    /\ hubIn = <<>>
    /\ hubOut = <<>>
    /\ tgPending = NoInbound
    /\ nextSeq = 1

TgIdle == tg = "off"

\* the root context is cancelled
TgCancel ==
    /\ ~tg.cancelled
    /\ tg' = [tg EXCEPT !.cancelled = TRUE]
    /\ UNCHANGED <<hubVars, nonTgVars>>

\* the poller at the top of its loop (part_001 48-88): it returns when ctx
\* is done, else it calls getUpdates
TgPollerTop ==
    /\ tg.ipc = "top"
    /\ IF tg.cancelled
       THEN tg' = [tg EXCEPT !.ipc = "stopped"]
       ELSE \E r \in TgResults(IF tg.offset = 0 THEN 1 ELSE tg.offset) :
               /\ Len(r) <= tg.updatesLeft
               /\ tg' = [tg EXCEPT !.result = r,
                                   !.updatesLeft = @ - Len(r),
                                   !.ipc = IF r = <<>> THEN "top" ELSE "updates"]
    /\ UNCHANGED <<hubVars, nonTgVars>>

\* for _, upd := range gu.Result (part_001 89-111): one update
TgPollerUpdate ==
    /\ tg.ipc = "updates"
    /\ IF tg.result = <<>>
       THEN /\ tg' = [tg EXCEPT !.ipc = "top"]
            /\ UNCHANGED tgPending
       ELSE LET upd == Head(tg.result)
                off == IF upd.id >= tg.offset THEN upd.id + 1 ELSE tg.offset
                keep == upd.hasMessage /\ tgAllowed(allowFrom, upd.from)
            IN  /\ tg' = [tg EXCEPT
                            !.result = Tail(@),
                            !.offset = off,
                            !.handled = IF upd.hasMessage
                                        THEN @ \cup {[id |-> upd.id, from |-> upd.from,
                                                      kept |-> keep]}
                                        ELSE @,
                            !.ipc = IF keep THEN "send" ELSE "updates"]
                /\ tgPending' = IF keep THEN Inbound("telegram", "t1", upd.from, upd.id)
                                ELSE tgPending
    /\ UNCHANGED <<hubIn, hubOut, hubCap, hbFile, allowFrom, nextSeq, nonTgVars>>

\* hub.In <- chat.Inbound{...} (part_001 112-118): waits for room on Hub.In,
\* whatever the state of ctx
TgPollerSend ==
    /\ tg.ipc = "send"
    /\ Len(hubIn) < hubCap
    /\ hubIn' = Append(hubIn, tgPending)
    /\ tg' = [tg EXCEPT !.entered = @ \cup {tgPending.seq}, !.ipc = "updates"]
    /\ tgPending' = NoInbound
    /\ UNCHANGED <<hubOut, hubCap, hbFile, allowFrom, nextSeq, nonTgVars>>

TgPoller == TgPollerTop \/ TgPollerUpdate \/ TgPollerSend

\* the agent loop takes the oldest Inbound; it stops with the root context
TgLoopTake ==
    /\ ~tg.cancelled
    /\ hubIn # <<>>
    /\ hubIn' = Tail(hubIn)
    /\ UNCHANGED <<hubOut, hubCap, hbFile, allowFrom, tgPending, nextSeq, tg, nonTgVars>>

\* the Heartbeat ticker (service.go 21-49): a tick, or the return on ctx.Done()
TgHeartbeat ==
    /\ tg.hpc = "run"
    /\ \/ HeartbeatTick
       \/ /\ tg.cancelled
          /\ tg' = [tg EXCEPT !.hpc = "stopped"]
          /\ UNCHANGED <<hubVars, nonTgVars>>

\* the loop or the MessageTool puts an Outbound on Hub.Out
TgPublish ==
    /\ ~tg.cancelled
    /\ tg.pubLeft > 0
    /\ Len(hubOut) < hubCap
    /\ \E o \in {Outbound("telegram", "t1", t) : t \in TgTexts(MaxText)}
                \cup {Outbound("cli", "c1", <<"a">>)} :
          /\ hubOut' = Append(hubOut, o)
          /\ tg' = [tg EXCEPT !.pubLeft = @ - 1, !.published = @ + 1]
    /\ UNCHANGED <<hubIn, hubCap, hbFile, allowFrom, tgPending, nextSeq, nonTgVars>>

\* the sender at its select (part_001 128-138): it returns on ctx.Done(), or
\* takes the next Outbound of Hub.Out and goes on to the next one when the
\* channel is not telegram
TgSenderSelect ==
    /\ tg.opc = "select"
    /\ \/ /\ tg.cancelled
          /\ tg' = [tg EXCEPT !.opc = "stopped"]
          /\ UNCHANGED hubOut
       \/ /\ hubOut # <<>>
          /\ hubOut' = Tail(hubOut)
          /\ LET o == Head(hubOut)
             IN  tg' = IF o.channel # "telegram"
                       THEN [tg EXCEPT !.discarded = @ + 1]
                       ELSE [tg EXCEPT !.out = o,
                                       !.chunks = splitMessage(o.content, tg.sendLimit),
                                       !.next = 1,
                                       !.posts = <<>>,
                                       !.taken = @ + 1,
                                       !.opc = "chunks"]
    /\ UNCHANGED <<hubIn, hubCap, hbFile, allowFrom, tgPending, nextSeq, nonTgVars>>

\* for _, chunk := range chunks (part_001 139-154): one sendMessage; an
\* error or a status other than 200 ends the loop
TgSenderPost ==
    /\ tg.opc = "chunks"
    /\ \E ok \in BOOLEAN :
          tg' = [tg EXCEPT
                   !.posts = Append(@, [chat |-> tg.out.chat,
                                        text |-> tg.chunks[tg.next], ok |-> ok]),
                   !.next = @ + 1,
                   !.opc = IF ok /\ tg.next < Len(tg.chunks) THEN "chunks" ELSE "select"]
    /\ UNCHANGED <<hubVars, nonTgVars>>

TgSender == TgSenderSelect \/ TgSenderPost

\* the sender of channel cli: it takes the Outbounds of its channel only,
\* and returns on ctx.Done()
TgCliSender ==
    /\ tg.cpc = "run"
    /\ \/ /\ tg.cancelled
          /\ tg' = [tg EXCEPT !.cpc = "stopped"]
          /\ UNCHANGED hubOut
       \/ /\ hubOut # <<>>
          /\ Head(hubOut).channel = "cli"
          /\ hubOut' = Tail(hubOut)
          /\ tg' = [tg EXCEPT !.delivered = @ + 1]
    /\ UNCHANGED <<hubIn, hubCap, hbFile, allowFrom, tgPending, nextSeq, nonTgVars>>

TgNext ==
    \/ TgCancel
    \/ TgPoller
    \/ TgLoopTake
    \/ TgHeartbeat
    \/ TgPublish
    \/ TgSender
    \/ TgCliSender

\* the packages of restVars at rest
RestIdle == MemIdle /\ RankIdle /\ FactoryIdle /\ WireIdle /\ WebIdle /\ TgIdle

(***************************************************************************)
(* The specifications: one per component, the other components at rest.    *)
(***************************************************************************)
RetrySpecInit == RetryInit /\ ExecIdle /\ LoopIdle /\ RestIdle

RetrySpec == RetrySpecInit /\ [][RetryNext]_vars

ExecSpecInit == ExecInit /\ RetryIdle /\ LoopIdle /\ RestIdle

ExecSpec == ExecSpecInit /\ [][ExecNext]_vars

LoopSpecInit == LoopInit /\ hbFile = HeartbeatTasks /\ RetryIdle /\ ExecIdle /\ RestIdle

LoopSpec == LoopSpecInit /\ [][LoopNext]_vars

\* the loop's task is scheduled: a provider call and a tool call end (each
\* runs under a timeout), and publishing does not block
LoopFairSpec == LoopSpec /\ WF_vars(LoopStep)

\* the Hub and the loop with a HEARTBEAT.md in any state, edited as they run
HeartbeatSpecInit ==
    LoopInit /\ hbFile \in HeartbeatFiles /\ RetryIdle /\ ExecIdle /\ RestIdle

HeartbeatNext == LoopNext \/ HeartbeatFileWrite

HeartbeatSpec == HeartbeatSpecInit /\ [][HeartbeatNext]_vars

\* a MemoryStore with two writing tasks and a reading task
MemSpecInit ==
    /\ MemInit /\ RetryIdle /\ ExecIdle /\ LoopIdle /\ RankIdle /\ FactoryIdle /\ WireIdle
    /\ WebIdle /\ TgIdle

MemSpec == MemSpecInit /\ [][MemNext]_vars

\* one call of a ranker, on any of the inputs
RankSpecInit ==
    /\ RankInit /\ RetryIdle /\ ExecIdle /\ LoopIdle /\ MemIdle /\ FactoryIdle /\ WireIdle
    /\ WebIdle /\ TgIdle

RankSpec == RankSpecInit /\ [][RankNext]_vars

\* one call of NewProviderFromConfig, on any config, in either build
FactorySpecInit ==
    /\ FactoryInit /\ RetryIdle /\ ExecIdle /\ LoopIdle /\ MemIdle /\ RankIdle /\ WireIdle
    /\ WebIdle /\ TgIdle

FactorySpec == FactorySpecInit /\ [][FactoryNext]_vars

\* one call of AnthropicProvider.Chat, on a prompt of the ContextBuilder
\* followed by the iterations of the agent loop so far
WireSpecInit ==
    /\ WireInit /\ RetryIdle /\ ExecIdle /\ LoopIdle /\ MemIdle /\ RankIdle /\ FactoryIdle
    /\ WebIdle /\ TgIdle

WireSpec == WireSpecInit /\ [][WireNext]_vars

\* one call of WebTool.Execute, on any of the arguments
WebSpecInit ==
    /\ WebInit /\ RetryIdle /\ ExecIdle /\ LoopIdle /\ MemIdle /\ RankIdle
    /\ FactoryIdle /\ WireIdle /\ TgIdle

WebSpec == WebSpecInit /\ [][WebNext]_vars

\* the Telegram adapter, the Heartbeat and the tasks beside them
TgSpecInit ==
    /\ TgInit
    /\ provider = "stub" /\ lpc = "off" /\ cur = NoInbound /\ iter = 0 /\ conv = <<>>
    /\ pending = NoCalls /\ final = "" /\ mtCtx = <<"", "">> /\ provCalls = 0
    /\ toolExecs = 0 /\ capTripped = FALSE /\ started = 0 /\ finished = 0
    /\ published = <<>>
    /\ RetryIdle /\ ExecIdle /\ MemIdle /\ RankIdle /\ FactoryIdle /\ WireIdle /\ WebIdle

TgSpec == TgSpecInit /\ [][TgNext]_vars

\* every task is scheduled: a task that can take a step takes one (an HTTP
\* call of the adapter ends, by its answer or by the client's timeout)
TgFairSpec ==
    TgSpec /\ WF_vars(TgPoller) /\ WF_vars(TgSender) /\ WF_vars(TgHeartbeat)
           /\ WF_vars(TgCliSender) /\ WF_vars(TgLoopTake)

(***************************************************************************)
(* Claims about doWithRetry                                                *)
(***************************************************************************)
ClaimRetryable == {429, 500, 502, 503, 504}

\* C6: doWithRetry makes at most 4 HTTP attempts (the first and at most 3
\* retries); every attempt but the last ended in a network error or in a
\* status of {429, 500, 502, 503, 504}; and when all four attempts end in
\* network errors the call returns the last of those errors and no response.
C6_AtMostFourAttempts ==
    /\ Len(outcomes) <= 4
    /\ \A i \in 1..(Len(outcomes) - 1) :
          outcomes[i] = 0 \/ outcomes[i] \in ClaimRetryable
    /\ (/\ rresult.returned
        /\ Len(outcomes) = 4
        /\ \A i \in 1..4 : outcomes[i] = 0)
          => /\ rresult.resp = NoResp
             /\ rresult.err = [kind |-> "net", at |-> 3]

C6_Witness ==
    /\ rresult.returned
    /\ Len(outcomes) = 4
    /\ \A i \in 1..4 : outcomes[i] = 0

\* C7: an attempt that ends in a status outside {429, 500, 502, 503, 504} is
\* the last one: doWithRetry has returned exactly that response, with its
\* body open and a nil error, and every wait made was made before it (one per
\* earlier attempt), whatever the earlier attempts were.
C7_NonRetryableReturnedAtOnce ==
    \A i \in 1..Len(outcomes) :
        (outcomes[i] # 0 /\ outcomes[i] \notin ClaimRetryable)
          => /\ i = Len(outcomes)
             /\ rpc = "done"
             /\ rresult.returned
             /\ rresult.err = NoErr
             /\ rresult.resp = resp
             /\ rresult.resp.status = outcomes[i]
             /\ ~rresult.resp.closed
             /\ slept = i - 1

C7_Witness ==
    /\ Len(outcomes) = 3
    /\ outcomes[1] = 0
    /\ outcomes[2] = 429
    /\ outcomes[3] = 404
    /\ rresult.returned

\* what a Retry-After text says in seconds, read as a decimal number of any
\* size: 0 when it is no positive number, 61 when it is more than 60
RECURSIVE StripZeros(_)
StripZeros(ds) == IF ds # <<>> /\ ds[1] = "0" THEN StripZeros(Tail(ds)) ELSE ds

ClaimSeconds(t) ==
    LET body == IF t # <<>> /\ t[1] = "+" THEN Tail(t) ELSE t
        sig == StripZeros(body)
    IN  IF body = <<>> \/ \E i \in 1..Len(body) : ~IsDigit(body[i]) THEN 0
        ELSE IF Len(sig) > 2 THEN 61
        ELSE Min(DecVal(sig), 61)

\* C8: the wait before retry k is exactly N seconds after a 429 with
\* Retry-After: N, 0 < N <= 60; min(5s * 2^(k-1), 60s) after a 429 whose
\* Retry-After is absent, unparsable or more than 60 s; min(1s * 2^(k-1), 60s)
\* after a network error or a 5xx; and no wait exceeds 60 s.  (A 429 whose
\* Retry-After is an HTTP date at most 60 s away is only held to the 60 s.)
C8_WaitBeforeRetry ==
    rpc = "sleep" =>
        LET k == attempt
            h == resp.retryAfter
            n == IF h.kind = "text" THEN ClaimSeconds(h.val) ELSE 0
            unusable == \/ h.kind = "absent"
                        \/ h.kind = "text" /\ (n = 0 \/ n > 60)
                        \/ h.kind = "date" /\ (h.untilMs <= 0 \/ h.untilMs > 60000)
        IN  /\ DurLeq(delay, DurOfSec(60))
            /\ (resp # NoResp /\ resp.status = 429 /\ h.kind = "text" /\ n > 0 /\ n <= 60)
                  => delay = DurOfSec(n)
            /\ (resp # NoResp /\ resp.status = 429 /\ unusable)
                  => delay = DurOfSec(Min(5 * Pow2(k - 1), 60))
            /\ (resp = NoResp \/ resp.status # 429)
                  => delay = DurOfSec(Min(Pow2(k - 1), 60))

(***************************************************************************)
(* Claims about Execute of the exec tool.                                  *)
(***************************************************************************)
\* the programs the blacklist names
ClaimBlacklist ==
    { <<"r","m">>, <<"s","u","d","o">>, <<"d","d">>, <<"m","k","f","s">>,
      <<"s","h","u","t","d","o","w","n">>, <<"r","e","b","o","o","t">>,
      <<"b","a","s","h">>, <<"s","h">>, <<"z","s","h">>, <<"n","c">>,
      <<"n","e","t","c","a","t">>, <<"n","m","a","p">> }

\* C9 (as stated): Execute with cmd given as a string returns an error and
\* starts no process; only an array of strings gets as far as validation.
C9_StringCmdRejected ==
    (epc # "off" /\ cmdRaw.type = "string")
      => /\ spawned = 0
         /\ epc \in {"received", "done"}
         /\ eresult.returned => eresult.err # NoExecErr

\* C10: a command whose argv[0] has a lowercase basename in the blacklist is
\* rejected with "exec: program '<argv[0]>' is disallowed", whatever its
\* arguments are, and no process is started for it.
C10_DangerousProgramRejected ==
    (epc # "off" /\ argv # <<>> /\ ToLower(Base(argv[1])) \in ClaimBlacklist)
      => /\ spawned = 0
         /\ epc \in {"parsed", "done"}
         /\ epc = "done"
              => /\ eresult.returned
                 /\ eresult.out = ""
                 /\ eresult.err = ExecErr("program is disallowed", argv[1])

\* a blacklisted program given with a path and in upper case, with an
\* argument that the argument checks would reject, has been rejected
C10_Witness ==
    /\ epc = "done"
    /\ Len(argv) >= 2
    /\ argv[1] = <<"/","x","/","S","U","D","O">>
    /\ hasUnsafeArg(evariant, argv[2])
    /\ eresult.err = ExecErr("program is disallowed", argv[1])

\* the argv the caller gave: the elements of an array of strings
ClaimArgv ==
    IF /\ cmdRaw.type = "array"
       /\ \A i \in 1..Len(cmdRaw.elems) : cmdRaw.elems[i].isString
    THEN [i \in 1..Len(cmdRaw.elems) |-> cmdRaw.elems[i].s]
    ELSE <<>>

ClaimInterpreters ==
    { <<"p","y","t","h","o","n">>, <<"p","y","t","h","o","n","3">>, <<"p","e","r","l">>,
      <<"r","u","b","y">>, <<"n","o","d","e">> }

ClaimPackageManagers == { <<"p","i","p">>, <<"p","i","p","3">>, <<"u","v">> }

ClaimProgName == ToLower(Base(ClaimArgv[1]))

\* the program is neither blacklisted, nor an interpreter, nor a package
\* manager
ClaimPlainProgram ==
    /\ ClaimArgv # <<>>
    /\ ClaimProgName \notin ClaimBlacklist \cup ClaimInterpreters \cup ClaimPackageManagers

\* the argument contains one of ; & | > < $ backquote .. ~
ClaimListedUnsafe(a) ==
    \/ \E m \in {";", "&", "|", ">", "<", "$", "backquote", "~"} : \E i \in 1..Len(a) : a[i] = m
    \/ \E i \in 1..(Len(a) - 1) : a[i] = "." /\ a[i + 1] = "."

ClaimHasSlash(a) == \E i \in 1..Len(a) : a[i] = "/"

ClaimHasDotDot(a) == \E i \in 1..(Len(a) - 1) : a[i] = "." /\ a[i + 1] = "."

\* Execute has decided on the command: rejected it, or let it through to the
\* spawn
ClaimRejected == epc = "done" /\ eresult.err.kind \notin {"nil", "exec error"}

ClaimPassed ==
    \/ epc \in {"validated", "spawned"}
    \/ epc = "done" /\ eresult.err.kind \in {"nil", "exec error"}

ClaimUnsafeError(a) == eresult.err = [kind |-> "argument looks unsafe", arg |-> a]

\* C11: for a program that is neither an interpreter nor a package manager,
\* an argument containing ; & | > < $ backquote .. or ~ makes Execute reject
\* the command without spawning; the error names the first argument the
\* check finds unsafe (the listed one, or one with "/" before it).  A
\* blacklisted program is rejected as such (C10).
C11_UnsafeArgumentRejected ==
    LET av == ClaimArgv
        listed == {i \in 2..Len(av) : ClaimListedUnsafe(av[i])}
    IN  (/\ av # <<>>
         /\ ClaimProgName \notin ClaimInterpreters \cup ClaimPackageManagers
         /\ listed # {}
         /\ epc \in {"validated", "spawned", "done"})
          => /\ ClaimRejected
             /\ spawned = 0
             /\ ClaimProgName \notin ClaimBlacklist
                  => \E j \in 2..Len(av) :
                        /\ ClaimUnsafeError(av[j])
                        /\ \A i \in listed : j <= i
                        /\ j \in listed \/ ClaimHasSlash(av[j])
                        /\ \A k \in 2..(j - 1) : ~ClaimHasSlash(av[k]) \/ evariant = 2

\* ls with a harmless argument and then one with a shell meta-character has
\* been rejected for the second
C11_Witness ==
    /\ ClaimArgv = << <<"l","s">>, <<"-","l","a">>, <<"$">> >>
    /\ epc = "done"
    /\ ClaimUnsafeError(<<"$">>)

\* C12 (as stated): for a program that is neither an interpreter nor a
\* package manager an argument containing "/" makes Execute fail with
\* "argument looks unsafe", and no process is spawned.
C12_SlashArgumentRejected ==
    LET av == ClaimArgv
    IN  (/\ ClaimPlainProgram
         /\ \E i \in 2..Len(av) : ClaimHasSlash(av[i])
         /\ epc \in {"validated", "spawned", "done"})
          => /\ ClaimRejected
             /\ spawned = 0
             /\ eresult.err.kind = "argument looks unsafe"

\* the script path lies inside the configured workspace: the workspace is
\* configured and absolute, and the path is the workspace, a slash and more
ClaimInsideWorkspace(path) ==
    /\ allowedDir # <<>>
    /\ allowedDir[1] = "/"
    /\ Len(path) > Len(allowedDir) + 1
    /\ SubSeq(path, 1, Len(allowedDir)) = allowedDir
    /\ path[Len(allowedDir) + 1] = "/"
    /\ ~ClaimHasDotDot(path)

ClaimRelative(path) == SubSeq(path, Len(allowedDir) + 2, Len(path))

\* C13 (as stated): with an interpreter and an absolute script path argv[1]
\* the command passes validation only if the path lies inside the configured
\* workspace, and then argv[1] is replaced by the workspace-relative path; an
\* absolute script path not inside a configured workspace is rejected and
\* nothing is spawned.
C13_AbsoluteScriptPath ==
    LET av == ClaimArgv
    IN  (/\ av # <<>>
         /\ ClaimProgName \in ClaimInterpreters
         /\ Len(av) >= 2
         /\ av[2] # <<>>
         /\ av[2][1] = "/"
         /\ epc \in {"validated", "spawned", "done"})
          => IF ClaimInsideWorkspace(av[2])
             THEN ClaimPassed => argv = [av EXCEPT ![2] = ClaimRelative(av[2])]
             ELSE ClaimRejected /\ spawned = 0

\* C14: with an interpreter and argv[1] other than -c, a script path that
\* contains ".." is rejected without spawning, with or without a workspace,
\* relative or absolute.
C14_ScriptPathTraversalRejected ==
    LET av == ClaimArgv
    IN  (/\ av # <<>>
         /\ ClaimProgName \in ClaimInterpreters
         /\ Len(av) >= 2
         /\ av[2] # <<"-", "c">>
         /\ ClaimHasDotDot(av[2])
         /\ epc \in {"validated", "spawned", "done"})
          => /\ ClaimRejected
             /\ spawned = 0
             /\ ClaimUnsafeError(av[2])

\* an absolute script path that goes through the workspace and out of it by
\* "..", with the workspace configured, has been rejected
C14_Witness ==
    /\ ClaimArgv # <<>>
    /\ ClaimProgName = <<"n","o","d","e">>
    /\ Len(ClaimArgv) >= 2
    /\ ClaimArgv[2] = <<"/","w","s","/",".",".","/","x">>
    /\ allowedDir = <<"/","w","s">>
    /\ epc = "done"
    /\ ClaimUnsafeError(ClaimArgv[2])

\* C15: with an interpreter and argv[1] = -c, argv[2] is not validated: the
\* command passes validation whatever argv[2] contains, when no later
\* argument is one the validator rejects.
C15_InlineCodeNotValidated ==
    LET av == ClaimArgv
    IN  (/\ av # <<>>
         /\ ClaimProgName \in ClaimInterpreters
         /\ Len(av) >= 3
         /\ av[2] = <<"-", "c">>
         /\ \A i \in 4..Len(av) : ~ClaimListedUnsafe(av[i]) /\ ~ClaimHasSlash(av[i])
         /\ epc \in {"validated", "spawned", "done"})
          => /\ ClaimPassed
             /\ argv = av

\* inline code with a path out of the workspace in it, and a later harmless
\* argument: the interpreter has been started
C15_Witness ==
    /\ ClaimArgv # <<>>
    /\ ClaimProgName = <<"p","y","t","h","o","n","3">>
    /\ Len(ClaimArgv) = 4
    /\ ClaimArgv[2] = <<"-", "c">>
    /\ ClaimArgv[3] = <<"/","w","s","/",".",".","/","x">>
    /\ ClaimArgv[4] = <<"-","l","a">>
    /\ epc = "spawned"
    /\ spawned = 1

\* the command is uv run pip ...
ClaimUvRunPip ==
    /\ ClaimArgv # <<>>
    /\ ClaimProgName = <<"u","v">>
    /\ Len(ClaimArgv) >= 3
    /\ ClaimArgv[2] = <<"r","u","n">>
    /\ ClaimArgv[3] = <<"p","i","p">>

\* C16: with pip, pip3 or uv (other than uv run pip, see C17) an argument is
\* rejected if and only if it contains "..": the first such argument is
\* named unsafe, and without one no argument is rejected, whatever /, ~,
\* dashes or shell meta-characters the arguments contain.
C16_PackageManagerArguments ==
    LET av == ClaimArgv
        dotdot == {i \in 2..Len(av) : ClaimHasDotDot(av[i])}
    IN  (/\ av # <<>>
         /\ ClaimProgName \in ClaimPackageManagers
         /\ ~ClaimUvRunPip
         /\ epc \in {"validated", "spawned", "done"})
          => IF dotdot # {}
             THEN /\ ClaimRejected
                  /\ spawned = 0
                  /\ \E j \in dotdot : /\ ClaimUnsafeError(av[j])
                                       /\ \A i \in dotdot : j <= i
             ELSE /\ ClaimPassed
                  /\ argv = av

\* pip3, given with a path and capitals, and arguments with / and a shell
\* meta-character: started
C16_Witness ==
    /\ ClaimArgv = << <<"b","/","P","i","p","3">>, <<"/","e","t","c">>, <<"a",";","b">> >>
    /\ epc = "spawned"
    /\ spawned = 1

\* C17 (as stated): a command uv run pip ... is rejected without spawning
\* with the error that gives the form uv pip ..., whatever the other
\* arguments; uv pip ... is not rejected by this check.
C17_UvRunPipRejected ==
    /\ (ClaimUvRunPip /\ epc \in {"validated", "spawned", "done"})
          => /\ ClaimRejected
             /\ spawned = 0
             /\ eresult.err.kind = "wrong syntax uv run pip"
    /\ eresult.err.kind = "wrong syntax uv run pip" => ClaimUvRunPip \/ cmdRaw.type = "string"

(***************************************************************************)
(* Claims about the AgentLoop and the Hub.                                 *)
(***************************************************************************)
\* the positions of the assistant messages of conv that request tool calls
Requests == {i \in 1..Len(conv) : conv[i].role = "assistant" /\ conv[i].calls # NoCalls}

ToolMsgCount == Cardinality({i \in 1..Len(conv) : conv[i].role = "tool"})

\* C1: a turn terminates: it makes at most max_tool_iterations provider
\* calls and ends with a final answer; when the cap trips the final answer is
\* the "reached tool-iteration limit" message; with the Stub provider the
\* final answer is not empty.
C1_TurnTerminates ==
    /\ [](provCalls <= MaxToolIterations)
    /\ [](capTripped => /\ lpc = "publish"
                        /\ provCalls = MaxToolIterations
                        /\ final = "reached tool-iteration limit")
    /\ []((lpc = "publish" /\ ~capTripped)
             => final \in {"answer", "echo", "sorry, the provider failed"})
    /\ []((lpc = "publish" /\ provider = "stub") => final # "")
    /\ (lpc \in {"provider", "tools", "publish"}) ~> (lpc = "idle")

\* a provider that asked for tool calls on every call: the cap tripped
C1_Witness ==
    /\ lpc = "publish"
    /\ capTripped
    /\ provCalls = MaxToolIterations
    /\ Cardinality(Requests) = MaxToolIterations
    /\ final = "reached tool-iteration limit"

\* C2: after an assistant message that requests the calls c1..ck the
\* conversation receives exactly k role:tool messages, in the order of the
\* calls, each with the tool_call_id of its call, and the provider is not
\* called before the last of them.
C2_OneToolResultPerCall ==
    /\ \A i \in Requests :
          LET k == Len(conv[i].calls)
              n == Len(conv) - i
          IN  /\ \A j \in 1..Min(k, n) :
                    /\ conv[i + j].role = "tool"
                    /\ conv[i + j].id = conv[i].calls[j].id
              /\ n > k => conv[i + k + 1].role = "assistant"
              /\ n < k => lpc = "tools"
    /\ \A i \in 1..Len(conv) :
          conv[i].role = "tool"
            => \E a \in Requests : a < i /\ i - a <= Len(conv[a].calls)
    /\ lpc = "provider" => pending = NoCalls
    /\ lpc \in {"provider", "tools"}
          => provCalls = Cardinality({i \in 1..Len(conv) : conv[i].role = "assistant"})

\* two requested calls answered by two tool messages; then the next
\* provider call
C2_Witness ==
    /\ provCalls = 2
    /\ Len(conv) >= 4
    /\ Len(conv[1].calls) = 2
    /\ conv[2].role = "tool" /\ conv[2].id = conv[1].calls[1].id
    /\ conv[3].role = "tool" /\ conv[3].id = conv[1].calls[2].id
    /\ conv[1].calls[1].id # conv[1].calls[2].id
    /\ conv[4].role = "assistant"

\* the largest number of tool calls in one response
MaxCallsPerResponse ==
    CHOOSE n \in 0..8 : /\ \E l \in ToolCallLists : Len(l) = n
                        /\ \A l \in ToolCallLists : Len(l) <= n

ClaimToolErrors ==
    {"exec: rejected", "outbound channel full", "message tool: 'content' argument required"}

\* C4: a tool call that fails or names an unknown tool does not end the
\* turn: it gives a role:tool message with the error text, the calls after
\* it are run, and the loop goes on to the next provider call.
C4_ToolErrorsDoNotAbort ==
    /\ \A i \in Requests :
          \A j \in 1..Len(conv[i].calls) :
             LET c == conv[i].calls[j]
                 n == Len(conv) - i
             IN  /\ (j <= n /\ c.name \notin {"exec", "message"})
                       => /\ conv[i + j].role = "tool"
                          /\ conv[i + j].content = <<"unknown tool: ", c.name>>
                 /\ (j <= n /\ c.name = "exec")
                       => conv[i + j].content \in {"output", "exec: rejected"}
                 /\ (j <= n /\ c.name = "message")
                       => conv[i + j].content \in {"sent", "outbound channel full"}
                 /\ j > n => /\ lpc = "tools"
                             /\ Len(pending) = Len(conv[i].calls) - n
                             /\ pending[j - n] = c
    /\ toolExecs = ToolMsgCount
    /\ (/\ lpc = "publish" /\ conv # <<>> /\ conv[Len(conv)].role = "tool"
        /\ provCalls = Cardinality(Requests)) => capTripped
    /\ (lpc = "provider" /\ conv # <<>>) => conv[Len(conv)].role = "tool"

\* an unknown tool and then a rejected exec in one assistant message, and
\* the provider called again after them
C4_Witness ==
    /\ Len(conv) >= 4
    /\ Len(conv[1].calls) = 2
    /\ conv[1].calls[1].name = "ghost"
    /\ conv[2].content = <<"unknown tool: ", "ghost">>
    /\ conv[3].content \in ClaimToolErrors
    /\ conv[4].role = "assistant"
    /\ provCalls = 2

ClaimMessageCallNext ==
    /\ lpc = "tools"
    /\ pending # NoCalls
    /\ Head(pending).name = "message"
    /\ Head(pending).content # ""

\* this step runs the tool call at the head of pending
ClaimToolRuns == toolExecs' = toolExecs + 1

\* the role:tool message that answers the call at the head of pending
ClaimToolResult(text) ==
    [role |-> "tool", content |-> text, id |-> Head(pending).id, calls |-> NoCalls]

\* C18: with room on Hub.Out, a message tool call with non-empty content
\* appends exactly one Outbound to Hub.Out, made of the context last given
\* to SetContext and the call's content, and its result is "sent"; the
\* context is the channel and chat of the turn's Inbound all through the turn
C18_MessageToolPublishes ==
    /\ [](lpc \in {"provider", "tools", "publish"} => mtCtx = <<cur.channel, cur.chat>>)
    /\ [][(ClaimMessageCallNext /\ Len(hubOut) < hubCap /\ ClaimToolRuns)
            => /\ hubOut' = Append(hubOut, [channel |-> mtCtx[1], chat |-> mtCtx[2],
                                            content |-> Head(pending).content])
               /\ conv' = Append(conv, ClaimToolResult("sent"))]_vars

\* the second turn, a heartbeat's, has sent "hi" to the heartbeat's
\* conversation after the first turn sent to a Telegram chat
C18_Witness ==
    /\ started = 2
    /\ cur.channel = "heartbeat"
    /\ mtCtx = <<"heartbeat", "system">>
    /\ Len(published) = 1
    /\ published[1].channel = "telegram"
    /\ hubOut # <<>>
    /\ hubOut[Len(hubOut)] = [channel |-> "heartbeat", chat |-> "system", content |-> "hi"]
    /\ conv # <<>>
    /\ conv[Len(conv)].role = "tool"
    /\ conv[Len(conv)].content = "sent"

\* C19: with Hub.Out full, a message tool call can always run, its result is
\* the error "outbound channel full" and Hub.Out is left as it was
C19_MessageToolNeverBlocks ==
    /\ []((ClaimMessageCallNext /\ Len(hubOut) = hubCap) => ENABLED LoopToolExec)
    /\ [][(ClaimMessageCallNext /\ Len(hubOut) = hubCap /\ ClaimToolRuns)
            => /\ hubOut' = hubOut
               /\ conv' = Append(conv, ClaimToolResult("outbound channel full"))]_vars

\* a message tool call has failed on a full Hub.Out of two entries
C19_Witness ==
    /\ hubCap = HubCap
    /\ Len(hubOut) = hubCap
    /\ conv # <<>>
    /\ conv[Len(conv)].role = "tool"
    /\ conv[Len(conv)].content = "outbound channel full"

\* the Inbound of a heartbeat is the last entry of q
ClaimHeartbeatLast(q) ==
    /\ q # <<>>
    /\ q[Len(q)].channel = "heartbeat"
    /\ q[Len(q)].sender = "heartbeat"
    /\ q[Len(q)].chat = "system"

\* q is Hub.In with exactly one heartbeat Inbound enqueued
ClaimHeartbeatEnqueued(q) ==
    /\ Len(q) = Len(hubIn) + 1
    /\ SubSeq(q, 1, Len(hubIn)) = hubIn
    /\ ClaimHeartbeatLast(q)

\* HEARTBEAT.md is readable and not empty after trimming whitespace
ClaimHeartbeatDue ==
    /\ hbFile.readable
    /\ \E k \in 1..Len(hbFile.data) : hbFile.data[k] \notin {" ", "\t", "\n"}

\* C20: a tick can always be taken, whatever Hub.In holds; when HEARTBEAT.md
\* is readable and not blank and Hub.In has room the tick enqueues exactly one
\* Inbound of channel heartbeat, sender heartbeat and chat system, and in any
\* other case, a full Hub.In among them, it leaves Hub.In as it was; no step
\* enqueues a heartbeat Inbound in any other case
C20_HeartbeatTick ==
    /\ [](nextSeq <= MaxInbound
            => /\ ENABLED HeartbeatTick
               /\ IF ClaimHeartbeatDue /\ Len(hubIn) < hubCap
                  THEN ~ENABLED (HeartbeatTick /\ ~ClaimHeartbeatEnqueued(hubIn'))
                  ELSE ~ENABLED (HeartbeatTick /\ hubIn' # hubIn))
    /\ [][(Len(hubIn') > Len(hubIn) /\ ClaimHeartbeatLast(hubIn'))
            => /\ ClaimHeartbeatDue
               /\ Len(hubIn) < hubCap
               /\ ClaimHeartbeatEnqueued(hubIn')]_vars

\* a tick is due on a full Hub.In that holds an earlier heartbeat, with
\* tasks between whitespace in HEARTBEAT.md
C20_Witness ==
    /\ nextSeq <= MaxInbound
    /\ hbFile = [readable |-> TRUE, data |-> <<" ", "t", "\n">>]
    /\ Len(hubIn) = hubCap
    /\ ClaimHeartbeatLast(hubIn)

(***************************************************************************)
(* The MemoryStore                                                         *)
(***************************************************************************)
\* the k newest items of a list, in the list's order
ClaimNewest(list, k) ==
    IF Len(list) > k THEN SubSeq(list, Len(list) - k + 1, Len(list)) ELSE list

\* no task is inside AddShort or AddLong
ClaimNoWriter == mu.writer = "none"

\* C21: the limit is positive, 100 when the constructor got none; whenever no
\* writer is inside the lock, and so whenever a reader is, the short list
\* holds at most limit items and they are the newest of all the items ever
\* given to AddShort, in insertion order; what a Recent has taken from the
\* short list is those items, newest first, cut at n
C21_ShortListBounded ==
    /\ limit \in {1, 2, 100}
    /\ mu.readers # {} => ClaimNoWriter
    /\ ClaimNoWriter
         => /\ Len(short) <= limit
            /\ short = ClaimNewest(shortLog, limit)
    /\ \A t \in {"r1"} :
          (mpc[t] = "readShort" /\ mcall[t].op = "Recent")
            => /\ Len(mout[t]) = IF mcall[t].n < Len(short) THEN mcall[t].n ELSE Len(short)
               /\ Len(mout[t]) <= limit
               /\ \A i \in 1..Len(mout[t]) :
                     /\ Len(shortLog) - i + 1 >= 1
                     /\ mout[t][i] = shortLog[Len(shortLog) - i + 1]

\* three items went into a store of limit 2, concurrently with a reader that
\* now sees the two newest
C21_Witness ==
    /\ limit = 2
    /\ Len(shortLog) = 3
    /\ Len(short) = 2
    /\ mpc["r1"] = "readShort"
    /\ mcall["r1"] = [op |-> "Recent", text |-> <<>>, n |-> 3]
    /\ Len(mout["r1"]) = 2
    /\ mout["r1"][1].Timestamp = 2
    /\ mout["r1"][2].Timestamp = 1

\* a list newest first
ClaimNewestFirst(list) == [i \in 1..Len(list) |-> list[Len(list) - i + 1]]

\* the traversal order: short items newest first, then long items newest first
ClaimTraversal == ClaimNewestFirst(short) \o ClaimNewestFirst(long)

ClaimFold(c) == IF c = "A" THEN "a" ELSE IF c = "B" THEN "b" ELSE c

\* text contains k, letter case apart
ClaimContainsFold(text, k) ==
    \E i \in 1..(Len(text) - Len(k) + 1) :
       \A j \in 1..Len(k) : ClaimFold(text[i + j - 1]) = ClaimFold(k[j])

\* the first n items of a list
ClaimFirst(list, n) == SubSeq(list, 1, IF n < Len(list) THEN n ELSE Len(list))

\* the first n items of the traversal whose text contains k
ClaimMatching(k, n) ==
    ClaimFirst(SelectSeq(ClaimTraversal, LAMBDA it : ClaimContainsFold(it.Text, k)), n)

\* the reading task returns in this step
ClaimReaderReturns == mpc["r1"] # "returned" /\ mpc'["r1"] = "returned"

\* what Recent(n) returns: at most n items, at most min(n, limit) when no
\* long item was added, the traversal cut at n
ClaimRecentResult ==
    (ClaimReaderReturns /\ mcall'["r1"].op = "Recent")
      => /\ Len(mout'["r1"]) <= mcall'["r1"].n
         /\ long = <<>> => Len(mout'["r1"]) <= limit
         /\ mout'["r1"] = ClaimFirst(ClaimTraversal, mcall'["r1"].n)

\* C22 as stated: Recent(n) returns the first n items of the traversal (short
\* newest first, then long newest first) and QueryByKeyword(k, n) the first n
\* of them whose text contains k case-insensitively, for every k
C22_RecentAndQueryAnyKeyword ==
    [][/\ ClaimRecentResult
       /\ (ClaimReaderReturns /\ mcall'["r1"].op = "QueryByKeyword")
            => mout'["r1"] = ClaimMatching(mcall'["r1"].text, mcall'["r1"].n)]_vars

\* C22, amended: the same, but QueryByKeyword with an empty keyword returns
\* no item
C22_RecentAndQuery ==
    [][/\ ClaimRecentResult
       /\ (ClaimReaderReturns /\ mcall'["r1"].op = "QueryByKeyword")
            => mout'["r1"] = IF mcall'["r1"].text = <<>>
                             THEN <<>>
                             ELSE ClaimMatching(mcall'["r1"].text, mcall'["r1"].n)]_vars

\* QueryByKeyword("a", 2) has returned the long item "Ab" after skipping the
\* short item "b", with a newer short item and an older long item in store
C22_Witness ==
    /\ mpc["r1"] = "returned"
    /\ mcall["r1"] = [op |-> "QueryByKeyword", text |-> <<"a">>, n |-> 2]
    /\ Len(short) = 1
    /\ short[1].Text = <<"b">>
    /\ Len(long) = 2
    /\ long[1].Text = <<"A", "b">>
    /\ long[2].Text = <<"A", "b">>
    /\ Len(mout["r1"]) = 2
    /\ mout["r1"][1] = long[2]
    /\ mout["r1"][2] = long[1]

(***************************************************************************)
(* The rankers                                                             *)
(***************************************************************************)
ClaimWordChars == {"m", "k", "e", "g", "x", "M", "K", "E", "_", "0", "1"}

ClaimLowerChar(c) ==
    IF c = "M" THEN "m" ELSE IF c = "K" THEN "k" ELSE IF c = "E" THEN "e" ELSE c

\* the places <<a, b>> of the words of s of length >= 2: maximal runs of
\* word characters
ClaimWords(s) ==
    {w \in (1..Len(s)) \X (1..Len(s)) :
       /\ w[1] < w[2]
       /\ \A i \in w[1]..w[2] : s[i] \in ClaimWordChars
       /\ w[1] > 1 => s[w[1] - 1] \notin ClaimWordChars
       /\ w[2] < Len(s) => s[w[2] + 1] \notin ClaimWordChars}

\* the word of s at the place w, in lower case
ClaimWord(s, w) == [i \in 1..(w[2] - w[1] + 1) |-> ClaimLowerChar(s[w[1] + i - 1])]

\* the number of query tokens present among the tokens of text
ClaimScore(query, text) ==
    Cardinality({q \in ClaimWords(query) :
                   \E w \in ClaimWords(text) : ClaimWord(query, q) = ClaimWord(text, w)})

\* the item at place i of memories goes before the one at place j: higher
\* score, or equal score and higher index
ClaimBefore(i, j) ==
    LET si == ClaimScore(rkQuery, rkMems[i].Text)
        sj == ClaimScore(rkQuery, rkMems[j].Text)
    IN  si > sj \/ (si = sj /\ i > j)

\* out holds the first Len(out) items of memories in the order of ClaimBefore
ClaimRankedPrefix(out) ==
    /\ \A p \in 1..Len(out) :
          /\ out[p].Timestamp \in 1..Len(rkMems)
          /\ out[p] = rkMems[out[p].Timestamp]
    /\ \A p, q \in 1..Len(out) : p < q => ClaimBefore(out[p].Timestamp, out[q].Timestamp)
    /\ \A i \in 1..Len(rkMems) :
          (\A p \in 1..Len(out) : out[p].Timestamp # i)
            => \A p \in 1..Len(out) : ClaimBefore(out[p].Timestamp, i)

\* C27: SimpleRanker.Rank returns min(top, len(memories)) items, all of them
\* when top <= 0, by descending score (the number of query tokens found among
\* the item's tokens), items of equal score by descending index; with a query
\* without tokens that is descending index
C27_SimpleRankerOrder ==
    rkpc = "simple"
      => /\ Len(rkOut) = IF rkTop <= 0 \/ rkTop > Len(rkMems) THEN Len(rkMems) ELSE rkTop
         /\ ClaimRankedPrefix(rkOut)
         /\ ClaimWords(rkQuery) = {}
              => \A p \in 1..Len(rkOut) : rkOut[p].Timestamp = Len(rkMems) - p + 1

\* the query "Eg,mk Mk" over "mk", "MK-eg x" and "mk" with top 2: the item of
\* score 3, then the newer of the two of score 2
C27_Witness ==
    /\ rkpc = "simple"
    /\ rkQuery = <<"E", "g", ",", "m", "k", " ", "M", "k">>
    /\ rkTop = 2
    /\ Len(rkMems) = 3
    /\ rkMems[1].Text = <<"m", "k">>
    /\ rkMems[2].Text = <<"M", "K", "-", "e", "g", " ", "x">>
    /\ rkMems[3].Text = <<"m", "k">>
    /\ rkOut = <<rkMems[2], rkMems[3]>>

\* a call of LLMMemoryRanker.Rank with a non-empty list and top > 0 has
\* returned
ClaimLLMRanked == rkpc = "llm" /\ rkMems # <<>> /\ rkTop > 0

\* C23: LLMMemoryRanker.Rank returns exactly min(top, len(memories)) items,
\* whatever the provider answered
C23_LLMRankerLength ==
    ClaimLLMRanked
      => Len(rkOut) = IF rkTop < Len(rkMems) THEN rkTop ELSE Len(rkMems)

\* a tool call that gives an index list: rank_memories with a list of
\* numbers as its indices
ClaimUsableCall(tc) ==
    /\ tc.Name = "rank_memories"
    /\ tc.hasIndices
    /\ tc.indices.type # "string"
    /\ \E i \in 1..Len(tc.indices.elems) : tc.indices.elems[i].t # "string"

ClaimHasUsableCall == \E i \in 1..Len(rkResp.ToolCalls) : ClaimUsableCall(rkResp.ToolCalls[i])

\* the contents that are no JSON array and contain none: "no", "", "][",
\* "null", "[1,x]"
ClaimNoArrayContents ==
    {<<"n", "o">>,
     <<>>,
     <<"]", "[">>,
     <<"n", "u", "l", "l">>,
     <<"[", "1", ",", "x", "]">>}

\* C24: when the provider call fails, or the response has no usable tool call
\* and a content that is no JSON array and contains none, the result is that
\* of SimpleRanker.Rank(query, memories, top)
C24_FallbackIsSimpleRanker ==
    (/\ ClaimLLMRanked
     /\ rkResp.hasProvider
     /\ \/ rkResp.err
        \/ ~ClaimHasUsableCall /\ rkResp.Content \in ClaimNoArrayContents)
      => rkOut = SimpleRank(rkQuery, rkMems, rkTop)

\* the integer a number stands for: a float64, kept in tenths, is truncated
ClaimInt(x) ==
    IF x.t = "float64"
    THEN CHOOSE k \in -10..10 : IF x.v >= 0 THEN x.v - 10 * k \in 0..9 ELSE 10 * k - x.v \in 0..9
    ELSE x.v

\* the indices of a usable tool call: its numbers, in order
ClaimCallIndices(tc) ==
    LET nums == SelectSeq(tc.indices.elems, LAMBDA x : x.t # "string")
    IN  [i \in 1..Len(nums) |-> ClaimInt(nums[i])]

\* the index list each JSON array of the inputs stands for
ClaimArrayIndices(text) ==
    IF text = <<"[", "1", ",", "0", "]">> THEN <<1, 0>>
    ELSE IF text = <<"[", "0", ",", "1", "]">> THEN <<0, 1>>
    ELSE IF text = <<" ", "[", " ", "2", " ", ",", " ", "2", ",", "0", " ", "]", " ">> THEN <<2, 2, 0>>
    ELSE IF text = <<"[", "7", ",", "-", "1", ",", "1", "]">> THEN <<7, -1, 1>>
    ELSE <<>>

\* the contents that are a JSON array of integers: "[1,0]", "[0,1]",
\* " [ 2 , 2,0 ] ", "[7,-1,1]", "[]"
ClaimArrayContents ==
    {<<"[", "1", ",", "0", "]">>, <<"[", "0", ",", "1", "]">>, <<" ", "[", " ", "2", " ", ",", " ", "2", ",", "0", " ", "]", " ">>, <<"[", "7", ",", "-", "1", ",", "1", "]">>, <<"[", "]">>}

\* the index list the provider supplied: that of the first usable tool call,
\* else that of a content that is a JSON array
ClaimSuppliedIndices ==
    IF ClaimHasUsableCall
    THEN ClaimCallIndices(rkResp.ToolCalls[
             CHOOSE i \in 1..Len(rkResp.ToolCalls) :
                /\ ClaimUsableCall(rkResp.ToolCalls[i])
                /\ \A j \in 1..(i - 1) : ~ClaimUsableCall(rkResp.ToolCalls[j])])
    ELSE ClaimArrayIndices(rkResp.Content)

\* the places in idxs of the indices that are kept: in range and not given
\* before
ClaimKeptPlaces(idxs) ==
    {i \in 1..Len(idxs) :
       /\ idxs[i] \in 0..(Len(rkMems) - 1)
       /\ \A j \in 1..(i - 1) : idxs[j] # idxs[i]}

\* out begins with the memories at the kept indices of idxs, in the order
\* given, at most top of them
ClaimBeginsWith(out, idxs) ==
    LET kept == ClaimKeptPlaces(idxs)
        n == IF Cardinality(kept) < rkTop THEN Cardinality(kept) ELSE rkTop
    IN  /\ Len(out) >= n
        /\ \A p \in 1..n :
              \E i \in kept :
                 /\ Cardinality({j \in kept : j < i}) = p - 1
                 /\ out[p] = rkMems[idxs[i] + 1]

\* C25: with an index list from the provider (from a rank_memories tool call
\* first, else from a content that is a JSON array) the result begins with
\* the memories at those indices, in the order given, less the indices out of
\* range and the repeats, cut at top; every item returned is one of memories
C25_IndicesOrderKept ==
    (/\ ClaimLLMRanked
     /\ rkResp.hasProvider
     /\ ~rkResp.err
     /\ ClaimHasUsableCall \/ rkResp.Content \in ClaimArrayContents)
      => /\ ClaimBeginsWith(rkOut, ClaimSuppliedIndices)
         /\ \A p \in 1..Len(rkOut) : \E i \in 1..Len(rkMems) : rkOut[p] = rkMems[i]

\* the tool call's [2, 2, 5, -1, 0] beside the content "[0,1]", over three
\* memories with top 2: the third and the first
C25_Witness ==
    /\ ClaimLLMRanked
    /\ Len(rkMems) = 3
    /\ rkTop = 2
    /\ rkResp.Content = <<"[", "0", ",", "1", "]">>
    /\ Len(rkResp.ToolCalls) = 1
    /\ ClaimHasUsableCall
    /\ ClaimSuppliedIndices = <<2, 2, 5, -1, 0>>
    /\ rkOut = <<rkMems[3], rkMems[1]>>

\* the first "[" of text and the first "]" after it, with what is between
ClaimFirstBracket(text) ==
    LET a == CHOOSE i \in 1..Len(text) : text[i] = "[" /\ \A j \in 1..(i - 1) : text[j] # "["
        b == CHOOSE i \in (a + 1)..Len(text) :
                text[i] = "]" /\ \A j \in (a + 1)..(i - 1) : text[j] # "]"
    IN  SubSeq(text, a, b)

\* the contents that are no JSON array but hold a "[...]" that is one:
\* "R: [1,0]" and "[0,1] [x]"
ClaimEmbeddedContents ==
    {<<"R", ":", " ", "[", "1", ",", "0", "]">>, <<"[", "0", ",", "1", "]", " ", "[", "x", "]">>}

\* C26: when the content is not itself a JSON array, its first "[...]" is the
\* index list, whatever precedes or follows it
C26_FirstBracketUsed ==
    (/\ ClaimLLMRanked
     /\ rkResp.hasProvider
     /\ ~rkResp.err
     /\ ~ClaimHasUsableCall
     /\ rkResp.Content \in ClaimEmbeddedContents)
      => ClaimBeginsWith(rkOut, ClaimArrayIndices(ClaimFirstBracket(rkResp.Content)))

(***************************************************************************)
(* Claims about NewProviderFromConfig                                      *)
(***************************************************************************)
\* a provider is configured: its section is there and its key is not empty
ClaimConfigured(section) == ~section.isNil /\ Len(section.APIKey) >= 1

\* the model begins with claude-
ClaimClaudeModel ==
    /\ Len(fcfg.Model) >= 7
    /\ <<fcfg.Model[1], fcfg.Model[2], fcfg.Model[3], fcfg.Model[4],
         fcfg.Model[5], fcfg.Model[6], fcfg.Model[7]>>
         = <<"c", "l", "a", "u", "d", "e", "-">>

\* C28: for every model, Anthropic section and OpenAI section (nil, empty
\* key, key set) NewProviderFromConfig returns the Anthropic provider when
\* the model begins with claude- and an Anthropic key is set, whatever the
\* OpenAI section; otherwise the OpenAI provider when an OpenAI key is set;
\* otherwise the Anthropic provider when an Anthropic key is set; otherwise
\* the Stub.
C28_FactorySelection ==
    fpc = "done" =>
        /\ (ClaimClaudeModel /\ ClaimConfigured(fcfg.Anthropic)) => fprov = "anthropic"
        /\ (~(ClaimClaudeModel /\ ClaimConfigured(fcfg.Anthropic))
              /\ ClaimConfigured(fcfg.OpenAI)) => fprov = "openai"
        /\ (~ClaimClaudeModel /\ ~ClaimConfigured(fcfg.OpenAI)
              /\ ClaimConfigured(fcfg.Anthropic)) => fprov = "anthropic"
        /\ (~ClaimConfigured(fcfg.OpenAI) /\ ~ClaimConfigured(fcfg.Anthropic))
              => fprov = "stub"

(***************************************************************************)
(* Claims about the request of AnthropicProvider.Chat                      *)
(***************************************************************************)
\* the places of the system messages, and of the others, in the conversation
ClaimSystemPlaces == {i \in 1..Len(amsgs) : amsgs[i].Role = "system"}

ClaimOtherPlaces == (1..Len(amsgs)) \ ClaimSystemPlaces

\* C29: once the request is built, no message of its messages list has the
\* role system, and the content of every system message of the conversation
\* is found in the system field of the request.
C29_SystemContentKept ==
    apc = "built" =>
        /\ \A j \in 1..Len(areq.Messages) : areq.Messages[j].Role # "system"
        /\ \A i \in ClaimSystemPlaces : Contains(areq.System, amsgs[i].Content)

\* the place in the request of the non-system message at place i
ClaimPlace(i) == Cardinality({h \in ClaimOtherPlaces : h <= i})

\* the blocks of a type in a message of the request, in their order
ClaimIsToolUse(b) == b.Type = "tool_use"

ClaimToolUses(msg) == SelectSeq(msg.Content, ClaimIsToolUse)

\* a tool_use block of an assistant message before place j has the id
ClaimUsedBefore(j, id) ==
    \E h \in 1..(j - 1) :
        /\ areq.Messages[h].Role = "assistant"
        /\ \E k \in 1..Len(areq.Messages[h].Content) :
              /\ areq.Messages[h].Content[k].Type = "tool_use"
              /\ areq.Messages[h].Content[k].ID = id

\* C30: once the request is built, its messages are the non-system messages
\* of the conversation, one for one and in their order; a tool message is a
\* user message with one block, a tool_result whose tool_use_id is the
\* tool_call_id of the message; any other message keeps its role and has one
\* tool_use block per tool call, in the order of the calls, with the id and
\* the name of the call; and the tool_use_id of every tool_result is the id
\* of a tool_use block of an assistant message before it.
C30_MessagesOneForOne ==
    apc = "built" =>
        /\ Len(areq.Messages) = Cardinality(ClaimOtherPlaces)
        /\ \A i \in ClaimOtherPlaces :
              LET m == amsgs[i]
                  out == areq.Messages[ClaimPlace(i)]
              IN  IF m.Role = "tool"
                  THEN /\ out.Role = "user"
                       /\ Len(out.Content) = 1
                       /\ out.Content[1].Type = "tool_result"
                       /\ out.Content[1].ToolUseID = m.ToolCallID
                       /\ ClaimUsedBefore(ClaimPlace(i), out.Content[1].ToolUseID)
                  ELSE /\ out.Role = m.Role
                       /\ Len(ClaimToolUses(out)) = Len(m.ToolCalls)
                       /\ \A k \in 1..Len(m.ToolCalls) :
                             /\ ClaimToolUses(out)[k].ID = m.ToolCalls[k].ID
                             /\ ClaimToolUses(out)[k].Name = m.ToolCalls[k].Name
                       /\ \A k \in 1..Len(out.Content) :
                             out.Content[k].Type \in {"text", "tool_use"}

\* a request was built from a conversation of two iterations of the loop,
\* the second with two tool calls after a text, behind a prompt with history
C30_Witness ==
    /\ apc = "built"
    /\ Cardinality(ClaimSystemPlaces) >= 4
    /\ \E i \in ClaimOtherPlaces :
          amsgs[i].Role = "assistant" /\ Len(amsgs[i].ToolCalls) = 2
                                      /\ amsgs[i].Content # <<>>
    /\ Cardinality({i \in ClaimOtherPlaces : amsgs[i].Role = "tool"}) >= 3
    /\ Cardinality({i \in ClaimOtherPlaces : amsgs[i].Role = "user"}) >= 2
    /\ Len(areq.Messages) >= 7

(***************************************************************************)
(* Claims about the response of AnthropicProvider.Chat                     *)
(***************************************************************************)
\* the response is a success: it arrived, its status is 2xx and its body
\* holds content blocks and no error object
ClaimWireSuccess ==
    ~awire.failed /\ awire.status \in 200..299 /\ awire.body = "content"

ClaimIsText(b) == b.Type = "text"

\* the texts of the text blocks, one after the other
RECURSIVE ClaimConcat(_)
ClaimConcat(bs) ==
    IF bs = <<>> THEN <<>> ELSE Head(bs).Text \o ClaimConcat(Tail(bs))

ClaimAllText == ClaimConcat(SelectSeq(awire.blocks, ClaimIsText))

ClaimWireToolUses == SelectSeq(awire.blocks, ClaimIsToolUse)

ClaimSpace(c) == c \in {" ", "\t", "\n", "\r"}

\* the tool calls are the tool_use blocks, one for one, in their order, with
\* id and name; has_tool_calls says whether there is one; a failure gives an
\* error and the zero LLMResponse
ClaimToolCallsAndErrors ==
    /\ ClaimWireSuccess =>
          /\ aout.err = "nil"
          /\ Len(aout.ToolCalls) = Len(ClaimWireToolUses)
          /\ \A k \in 1..Len(aout.ToolCalls) :
                /\ aout.ToolCalls[k].ID = ClaimWireToolUses[k].ID
                /\ aout.ToolCalls[k].Name = ClaimWireToolUses[k].Name
          /\ aout.HasToolCalls <=> (aout.ToolCalls # <<>>)
    /\ (~awire.failed /\ (awire.status \notin 200..299 \/ awire.body = "error")) =>
          /\ aout.err # "nil"
          /\ aout.Content = <<>> /\ aout.ToolCalls = <<>> /\ ~aout.HasToolCalls

\* C31 as stated: once Chat has returned on a successful response, content
\* is the concatenation of the texts of all text blocks in their order, the
\* tool calls are the tool_use blocks one for one with id and name, and
\* has_tool_calls holds exactly when there is a tool call; a status outside
\* 2xx or an error object gives an error and no LLMResponse.
C31_ContentIsConcatenation ==
    apc = "returned" =>
        /\ ClaimWireSuccess => aout.Content = ClaimAllText
        /\ ClaimToolCallsAndErrors

\* C31: as above, but content is the concatenation without the white space
\* at its two ends: it is a piece of the concatenation, neither begins nor
\* ends with white space, and only white space lies before and after it.
C31_ContentIsTrimmedConcatenation ==
    apc = "returned" =>
        /\ ClaimWireSuccess =>
              \E lo \in 0..Len(ClaimAllText) :
                 /\ lo + Len(aout.Content) <= Len(ClaimAllText)
                 /\ aout.Content = SubSeq(ClaimAllText, lo + 1, lo + Len(aout.Content))
                 /\ \A k \in 1..Len(ClaimAllText) :
                       (k <= lo \/ k > lo + Len(aout.Content))
                           => ClaimSpace(ClaimAllText[k])
                 /\ aout.Content # <<>> =>
                       /\ ~ClaimSpace(aout.Content[1])
                       /\ ~ClaimSpace(aout.Content[Len(aout.Content)])
        /\ ClaimToolCallsAndErrors

\* Chat returned on a success with two text blocks around two tool_use
\* blocks, the text with white space inside
C31_Witness ==
    /\ apc = "returned"
    /\ ClaimWireSuccess
    /\ Len(aout.ToolCalls) = 2
    /\ Len(SelectSeq(awire.blocks, ClaimIsText)) = 2
    /\ aout.Content = <<"a", " ", "b">>

(***************************************************************************)
(* Claims about the bodies doWithRetry closes and about cancellation       *)
(***************************************************************************)
\* C35: a response with a retryable status whose attempt is followed by
\* another attempt has its body closed when the loop goes round, and the
\* response doWithRetry returns, the last of an exhausted call included, has
\* its body open.
C35_ReturnedBodyOpen ==
    /\ (rpc \in {"head", "sleep", "build", "do"} /\ resp # NoResp
           /\ attempt <= maxRetries) => resp.closed
    /\ (rpc = "done" /\ rresult.err = NoErr) =>
          (rresult.resp.status # 0 /\ ~rresult.resp.closed)

\* C39: a call that waits before a retry with its context cancelled takes
\* one step only: it returns the context's error and no response; no HTTP
\* attempt is added and the wait is not counted as completed.
C39_CancelPreemptsWait ==
    [][(rpc = "sleep" /\ ctxDone) =>
          /\ rpc' = "done"
          /\ rresult'.returned
          /\ rresult'.resp = NoResp
          /\ rresult'.err.kind = "ctx"
          /\ outcomes' = outcomes
          /\ slept' = slept]_vars

\* the context was cancelled during the wait before the second retry, and
\* the call has returned the context's error after two attempts and one wait
C39_Witness ==
    /\ rpc = "done"
    /\ ctxDone
    /\ rresult.err.kind = "ctx"
    /\ rresult.resp = NoResp
    /\ Len(outcomes) = 2
    /\ slept = 1

(***************************************************************************)
(* Claims about the course of a call of ExecTool.Execute                   *)
(***************************************************************************)
\* the positions a call passes: received, validated (after the parse and
\* after the checks), spawned, and the end
ClaimExecOrder ==
    {<<"received", "parsed">>, <<"parsed", "validated">>, <<"validated", "spawned">>,
     <<"received", "done">>, <<"parsed", "done">>, <<"validated", "done">>,
     <<"spawned", "done">>}

\* a check of the call rejects the arguments it was given
ClaimExecRejected ==
    \/ parseCmd(evariant, cmdRaw).err # NoExecErr
    \/ validate(evariant, allowedDir, parseCmd(evariant, cmdRaw).argv).err # NoExecErr

\* C36: a call goes from received through validated to spawned and ends
\* completed, timed out or failed, or ends before with an error; it starts
\* at most one process, and only after all checks have passed; a call that
\* a check rejects ends with that error and no process; no step changes
\* the tool's allowedDir or the caller's arguments, so that whether the call
\* is rejected depends on them alone.
C36_CallStateMachine ==
    /\ [](/\ spawned <= 1
          /\ spawned = 1 => (epc \in {"spawned", "done"} /\ ~ClaimExecRejected)
          /\ epc = "spawned" => spawned = 1
          /\ epc = "done" =>
                /\ eresult.returned
                /\ ClaimExecRejected =>
                      (spawned = 0 /\ eresult.err # NoExecErr
                                   /\ eresult.err.kind # "exec error")
                /\ spawned = 1 => eresult.out \in {"completed", "timedout", "failed"}
                /\ spawned = 0 => eresult.err # NoExecErr)
    /\ [][/\ <<epc, epc'>> \in ClaimExecOrder
          /\ allowedDir' = allowedDir
          /\ cmdRaw' = cmdRaw
          /\ evariant' = evariant
          /\ spawned' >= spawned]_vars

\* a call whose script path was rewritten by the checks has started its
\* process and ended by the timeout
C36_Witness ==
    /\ epc = "done"
    /\ spawned = 1
    /\ eresult.out = "timedout"
    /\ cmdRaw.type = "array"
    /\ argv # parseCmd(evariant, cmdRaw).argv

(***************************************************************************)
(* Claims about WebTool.Execute                                            *)
(***************************************************************************)
ClaimLocalTexts ==
    {<<"l", "o", "c", "a", "l", "h", "o", "s", "t">>,
     <<"1", "2", "7", ".", "0", ".", "0", ".", "1">>,
     <<":", ":", "1">>,
     <<"1", "0", ".">>,
     <<"1", "9", "2", ".", "1", "6", "8", ".">>,
     <<"1", "7", "2", ".", "1", "6", ".">>,
     <<"1", "6", "9", ".", "2", "5", "4", ".">>}

ClaimCapitals ==
    <<"A", "B", "C", "D", "E", "F", "G", "H", "I", "J", "K", "L", "M",
      "N", "O", "P", "Q", "R", "S", "T", "U", "V", "W", "X", "Y", "Z">>

ClaimSmalls ==
    <<"a", "b", "c", "d", "e", "f", "g", "h", "i", "j", "k", "l", "m",
      "n", "o", "p", "q", "r", "s", "t", "u", "v", "w", "x", "y", "z">>

\* two characters are the same but for the case of a letter
ClaimSameLetter(c, d) ==
    \/ c = d
    \/ \E n \in 1..26 : {c, d} = {ClaimCapitals[n], ClaimSmalls[n]}

\* the text t stands in u at place i, letters compared without their case
ClaimStandsAt(u, t, i) ==
    /\ i + Len(t) - 1 <= Len(u)
    /\ \A k \in 1..Len(t) : ClaimSameLetter(u[i + k - 1], t[k])

\* the url argument is missing, not a string, empty, or holds one of the texts
ClaimUrlRefused ==
    \/ web.arg.type # "string"
    \/ web.arg.text = <<>>
    \/ \E t \in ClaimLocalTexts :
          \E i \in 1..Len(web.arg.text) : ClaimStandsAt(web.arg.text, t, i)

\* C33: a call whose url is missing, empty, not a string or holds, in any
\* case of its letters, one of localhost, 127.0.0.1, ::1, 10., 192.168.,
\* 172.16., 169.254. never issues an HTTP request, and ends with an error.
C33_LocalUrlsRejected ==
    ClaimUrlRefused =>
        /\ web.requests = 0
        /\ web.pc # "checked"
        /\ web.pc = "done" => (web.err # "" /\ web.res = "")

\* a call has ended with the error of the protection on a URL that names
\* localhost in capitals only in its query
C33_Witness ==
    /\ web.pc = "done"
    /\ web.requests = 0
    /\ web.err = "web: access to local or private network addresses is disallowed"
    /\ ~ssrfBlockedCaseSensitive(web.arg.text)

(***************************************************************************)
(* Claims about ContextBuilder.BuildMessages                               *)
(***************************************************************************)
ClaimNotEmpty(h) == h # <<>>

\* the history entries that are not empty, in their order
ClaimHistory == SelectSeq(cbIn.history, ClaimNotEmpty)

\* a character of a file that is not white space
ClaimHasText(f) ==
    f.readable /\ \E k \in 1..Len(f.data) : f.data[k] \notin {" ", "\t", "\n", "\r"}

\* the optional pieces that are there: bootstrap files with text, a skill,
\* a memory context, a memory that is selected
ClaimPieces ==
    Cardinality({k \in 1..4 : ClaimHasText(cbIn.files[k])})
    + (IF cbIn.skills THEN 1 ELSE 0)
    + (IF cbIn.memoryContext # <<>> THEN 1 ELSE 0)
    + (IF cbIn.hasMemories /\ cbIn.ranker # "none" THEN 1 ELSE 0)

\* C34: the list BuildMessages returns begins with the system message of
\* the Master Instruction and ends with the user message of the current
\* message; no user message comes before a system message; the user
\* messages before the last are the non-empty history entries, in their
\* order; and there are three system messages (Master Instruction, channel
\* line, memory directive) and one more per optional piece that is there.
C34_PromptOrder ==
    apc = "prompt" =>
        LET n == Len(amsgs)
            sys == Cardinality(ClaimSystemPlaces)
        IN  /\ n >= 4
            /\ amsgs[1].Role = "system" /\ amsgs[1].Content = <<"M">>
            /\ amsgs[n].Role = "user" /\ amsgs[n].Content = cbIn.currentMessage
            /\ \A i \in 1..n : amsgs[i].Role \in {"system", "user"}
            /\ \A i \in 1..n, j \in 1..n :
                  (amsgs[i].Role = "system" /\ amsgs[j].Role = "user") => i < j
            /\ n - 1 - sys = Len(ClaimHistory)
            /\ \A k \in 1..Len(ClaimHistory) :
                  /\ amsgs[sys + k].Role = "user"
                  /\ amsgs[sys + k].Content = ClaimHistory[k]
            /\ sys = 3 + ClaimPieces
            /\ \A i \in 1..n : amsgs[i].ToolCalls = <<>> /\ amsgs[i].ToolCallID = <<>>

\* a prompt was built from a history with an empty entry and a workspace
\* with a blank file and a ranker that selects nothing
C34_Witness ==
    /\ apc = "prompt"
    /\ Len(cbIn.history) > Len(ClaimHistory)
    /\ ClaimHistory # <<>>
    /\ \E k \in 1..4 : cbIn.files[k].readable /\ ~ClaimHasText(cbIn.files[k])
    /\ \E k \in 1..4 : ClaimHasText(cbIn.files[k])
    /\ cbIn.hasMemories /\ cbIn.ranker = "none"
    /\ cbIn.skills


(***************************************************************************)
(* Claims about the Telegram adapter                                       *)
(***************************************************************************)
\* the update_ids of the Telegram Inbounds on Hub.In or in the poller's hand
ClaimTelegramWaiting ==
    {hubIn[i].seq : i \in {j \in 1..Len(hubIn) : hubIn[j].channel = "telegram"}}
    \cup (IF tg.ipc = "send" THEN {tgPending.seq} ELSE {})

RECURSIVE ClaimJoin(_)
ClaimJoin(chunks) ==
    IF chunks = <<>> THEN <<>> ELSE Head(chunks) \o ClaimJoin(Tail(chunks))

\* the number of characters of text before chunk k
RECURSIVE ClaimCharsBefore(_, _)
ClaimCharsBefore(chunks, k) ==
    IF k = 1 THEN 0 ELSE ClaimCharsBefore(chunks, k - 1) + Len(chunks[k - 1])

\* the indices from 0, other than 0, of the newlines among the first maxLen
\* characters of text after its first start characters
ClaimNewlines(text, start, maxLen) ==
    {j \in 1..(maxLen - 1) : text[start + j + 1] = "\n"}

\* where the cut of a text longer than maxLen falls
ClaimCut(text, start, maxLen) ==
    IF ClaimNewlines(text, start, maxLen) = {} THEN maxLen
    ELSE 1 + CHOOSE j \in ClaimNewlines(text, start, maxLen) :
                 \A m \in ClaimNewlines(text, start, maxLen) : m <= j

\* what C40 says of the chunks splitMessage gave for text and maxLen
ClaimSplit(text, maxLen, chunks) ==
    /\ ClaimJoin(chunks) = text
    /\ \A k \in 1..Len(chunks) : Len(chunks[k]) <= maxLen
    /\ Len(text) > maxLen => \A k \in 1..Len(chunks) : chunks[k] # <<>>
    /\ Len(text) <= maxLen => chunks = <<text>>
    /\ \A k \in 1..Len(chunks) :
          k < Len(chunks) =>
             Len(chunks[k]) = ClaimCut(text, ClaimCharsBefore(chunks, k), maxLen)

\* the sendMessage calls made for the Outbound in hand are its first chunks,
\* in order, to its chat, and none follows a call that failed
ClaimPostsInOrder ==
    /\ Len(tg.posts) <= Len(tg.chunks)
    /\ \A k \in 1..Len(tg.posts) :
          /\ tg.posts[k].text = tg.chunks[k]
          /\ tg.posts[k].chat = tg.out.chat
          /\ k < Len(tg.posts) => tg.posts[k].ok
    /\ tg.opc = "chunks" =>
          /\ Len(tg.posts) < Len(tg.chunks)
          /\ tg.next = Len(tg.posts) + 1
          /\ \A k \in 1..Len(tg.posts) : tg.posts[k].ok

C37_OutboundReachesItsChannel ==
    /\ tg.discarded = 0
    /\ tg.published = Len(hubOut) + tg.taken + tg.delivered

\* C38: once the root context is cancelled, the Telegram poller, the
\* Telegram sender and the Heartbeat ticker all come to a stop
C38_TasksStopAfterCancel ==
    tg.cancelled ~> (tg.ipc = "stopped" /\ tg.opc = "stopped" /\ tg.hpc = "stopped")
====
